---- MODULE Spec2Model ----
(***************************************************************************)
(* Arcade Game Picker: the global status store (SQLite table game_status), *)
(* the per-session status cache written through by update_status, the      *)
(* per-session ADB metadata cache filled by fetch_adb_details, game_key,   *)
(* the Discover panel with the Game of the Day, and the artwork lookup of  *)
(* appv1_4.py.                                                             *)
(***************************************************************************)
EXTENDS Integers, Sequences, FiniteSets, TLC

(***************************************************************************)
(* Values.  A Python str is a sequence of one-character strings.  None is  *)
(* the token "None"; a rom argument that is None is the one-element        *)
(* sequence holding that token, which is not a character.                  *)
(***************************************************************************)
None == "None"
NoneRom == <<None>>

STATUS_WANT == "want_to_play"
STATUS_PLAYED == "played"
Statuses == {STATUS_WANT, STATUS_PLAYED}
StatusArgs == Statuses \cup {None}

\* The rom arguments the UI and callers may pass.
RawRoms == {NoneRom, <<" ">>, <<"a">>, <<" ", "A">>, <<"B", " ">>}

Sessions == {"s1", "s2"}

\* Largest value of the store clock (datetime('now')) the model explores.
MaxClock == 1

(***************************************************************************)
(* str.strip() and str.lower()                                             *)
(***************************************************************************)
IsSpace(c) == c = " "

LowerChar(c) == CASE c = "A" -> "a" [] c = "B" -> "b" [] OTHER -> c

LowerStr(s) == [i \in 1..Len(s) |-> LowerChar(s[i])]

RECURSIVE LStrip(_)
LStrip(s) == IF s # <<>> /\ IsSpace(Head(s)) THEN LStrip(Tail(s)) ELSE s

RECURSIVE RStrip(_)
RStrip(s) ==
    IF s # <<>> /\ IsSpace(s[Len(s)]) THEN RStrip(SubSeq(s, 1, Len(s) - 1)) ELSE s

Strip(s) == RStrip(LStrip(s))

\* (rom or "")
OrEmpty(rom) == IF rom = NoneRom \/ rom = <<>> THEN <<>> ELSE rom

\* rom = (rom or "").strip().lower()
NormRom(rom) == LowerStr(Strip(OrEmpty(rom)))

\* str(rom).strip().lower()
StrNorm(rom) == LowerStr(Strip(rom))

\* The normalized, non-empty roms.
RomKeys == {NormRom(r) : r \in RawRoms} \ {<<>>}

(***************************************************************************)
(* Python dict operations on a function with a finite domain.              *)
(***************************************************************************)
EmptyDict == <<>>

DictSet(d, k, v) == [x \in DOMAIN d \cup {k} |-> IF x = k THEN v ELSE d[x]]

DictPop(d, k) == [x \in DOMAIN d \ {k} |-> d[x]]

DictGet(d, k) == IF k \in DOMAIN d THEN d[k] ELSE None

(***************************************************************************)
(* The dataset and the wall clock                                          *)
(***************************************************************************)

\* A dataset as ensure_columns leaves it, in file order: roms trimmed and
\* lowercased, titles trimmed, years integers. No two rows agree on year and
\* title.
Games ==
    <<[rom |-> <<"b">>, game |-> <<"B">>, year |-> 1981, company |-> <<"b">>],
      [rom |-> <<"a">>, game |-> <<"a">>, year |-> 1981, company |-> <<>>],
      [rom |-> <<>>, game |-> <<"a">>, year |-> 1980, company |-> <<"b">>],
      [rom |-> <<"a", "b">>, game |-> <<"a", "b">>, year |-> 1980, company |-> <<>>],
      [rom |-> <<"b", "a">>, game |-> <<"b">>, year |-> 1982, company |-> <<>>]>>

\* A dataset of three rows.
FewGames == <<Games[1], Games[2], Games[3]>>

\* The local times at which a session can begin.
StartClocks ==
    {[y |-> 2023, m |-> 12, d |-> 30, h |-> 0],
     [y |-> 2023, m |-> 2, d |-> 27, h |-> 0],
     [y |-> 2024, m |-> 2, d |-> 27, h |-> 23]}

\* Most days the model lets a session last.
MaxDays == 3

VARIABLES
    game_status,         \* the rows of table game_status: [rom, status, updated_at]
    now,                 \* the store's clock, read by datetime('now')
    txn,                 \* per session: <<>> or <<rows>>, the uncommitted table of its connection
    status_cache,        \* st.session_state.status_cache, per session
    status_cache_loaded, \* st.session_state.status_cache_loaded, per session
    pc,                  \* per session: where its update_status call stands
    frame,               \* per session: rom and new_status of the running update_status
                         \* call, and the datetime('now') its statement read
    raised,              \* per session: its last update_status call ended in an exception
    last_set,            \* history: per rom, the set_status the store committed last
    cache_before         \* history: per session, status_cache when its update_status call began

statusVars == <<game_status, now, txn, status_cache, status_cache_loaded, pc, frame,
                raised, last_set, cache_before>>

\* One session's ADB state.
VARIABLES
    adb_cache,            \* st.session_state.adb_cache: rom -> payload or error descriptor
    adb_autoload_global,  \* st.session_state.adb_autoload_global
    adb_autoload_by_rom,  \* st.session_state.adb_autoload_by_rom
    adb_pc,               \* "idle"; "fetching" while urlopen waits; "responded" once the
                          \* response is there
    adb_frame,            \* <<>> or <<locals>>: rom, auto_val, load_btn, refresh_btn of the
                          \* last show_adb_block call that went past its rom check, whether
                          \* it sent a request and the entry its refresh removed
    adb_response,         \* <<>> or <<response>>: the response to the request in flight
    adb_data,             \* <<>> for None, or <<data>>: what the last show_adb_block or
                          \* fetch_adb_details call got
    adb_arg,              \* <<>>, or <<rom>>: the argument of the last call when that was a
                          \* call of fetch_adb_details with a rom that normalizes to ""
    adb_https,            \* <<>> or <<response>>: what the https:// variant of the scraper
                          \* URL, which adb_urls does not list, would have answered to the
                          \* last request
    requests              \* the number of HTTP requests issued so far

adbVars == <<adb_cache, adb_autoload_global, adb_autoload_by_rom, adb_pc, adb_frame,
             adb_response, adb_data, adb_arg, adb_https, requests>>

\* The calls of game_key.
VARIABLES
    key_calls             \* the last two game_key calls, newest last: [row, key] each

keyVars == <<key_calls>>

\* One session's Discover panel and Game of the Day.
VARIABLES
    df,                   \* the dataset load_games returned, in file order
    clock,                \* datetime.now(TZ): [y, m, d, h]
    elapsed,              \* history: the days gone by since the session began
    hits,                 \* hits (app.py) or filtered (appv1_4.py) of the last script run
    seed_at,              \* <<>>, or <<clock>>: the now of the last script run
    seed,                 \* app.py: seed of the last script run
    seed_int,             \* appv1_4.py: seed_int of the last script run
    gotd,                 \* app.py: <<>>, or <<row>>: gotd of the last script run
    gotd_v14,             \* appv1_4.py: <<>> for None, or <<row>>: deterministic_pick's result
    selected_key,         \* st.session_state.selected_key: <<>> for None, or <<key>>
    picked_rows,          \* st.session_state.picked_rows
    shown_pick,           \* appv1_4.py: <<>>, or <<row>>: the random pick shown by the last run
    last_click,           \* the button that started the last script run, "" for none
    pick_warned,          \* the last script run showed the "No games match" warning
    pick_raised,          \* the last script run ended in an uncaught exception
    det_call              \* <<>>, or <<[df_in, seed_int, out]>>: the last deterministic_pick
                          \* call made outside a script run

pickVars == <<df, clock, elapsed, hits, seed_at, seed, seed_int, gotd, gotd_v14, selected_key,
              picked_rows, shown_pick, last_click, pick_warned, pick_raised, det_call>>

\* appv1_4.py: the artwork of one show_game_details call.
VARIABLES
    art_pc,               \* "idle", or "loop" while the for loop over the candidates runs
    art_rom,              \* rom of the last show_game_details call
    art_exists,           \* the folders of the thumbnail set that hold an image for art_rom
    art_i,                \* the position of u in candidates, from 1
    art_tried,            \* history: the candidates st.image was called with, in call order
    art_shown,            \* <<>>, or <<u>>: the image shown
    art_caption           \* the caption shown instead of an image, "" for none

artVars == <<art_pc, art_rom, art_exists, art_i, art_tried, art_shown, art_caption>>

\* The calls that returned at once.
VARIABLES
    no_rom_call           \* <<>>, or the last update_status or set_status call of a
                          \* record without rom: <<[fn, rom, new_status]>>

callVars == <<no_rom_call>>

\* appv1_4.py: the favorites of one session.
VARIABLES
    favorites,            \* st.session_state.favorites: a list of keys
    fav_event             \* history: the last favorites handler that ran, its key or
                          \* uploaded file, and the sidebar message it left

favVars == <<favorites, fav_event>>

\* The tree walks over an ADB response.
VARIABLES
    img_in,               \* <<>>, or the argument of the last extract_image_urls call:
                          \* <<[shape, leaves]>>
    img_out,              \* the list that call returned
    sum_in,               \* <<>>, or the response show_adb_block has at hand:
                          \* <<[shape, data]>>
    sum_out               \* <<>>, or what parse_adb_summary did with it:
                          \* <<[summary, raised]>>

treeVars == <<img_in, img_out, sum_in, sum_out>>

laterVars == <<callVars, favVars, treeVars>>

\* All variables but the status store's and the record of its calls.
notCall == <<adbVars, keyVars, pickVars, artVars, favVars, treeVars>>

restVars == <<keyVars, pickVars, artVars, laterVars>>

\* All variables but those of one part.
exceptKey == <<statusVars, adbVars, pickVars, artVars, laterVars>>
exceptPick == <<statusVars, adbVars, keyVars, artVars, laterVars>>
exceptArt == <<statusVars, adbVars, keyVars, pickVars, laterVars>>
exceptFav == <<statusVars, adbVars, keyVars, pickVars, artVars, callVars, treeVars>>
exceptTree == <<statusVars, adbVars, keyVars, pickVars, artVars, callVars, favVars>>

vars == <<statusVars, adbVars, restVars>>

(***************************************************************************)
(* The status store                                                        *)
(***************************************************************************)
RowsOf(rows, rom) == {r \in rows : r.rom = rom}

\* INSERT INTO game_status ... without the ON CONFLICT clause: a second row.
UpsertAppends(rows, rom, status, at) ==
    rows \cup {[rom |-> rom, status |-> status, updated_at |-> at]}

\* ON CONFLICT ... SET status=excluded.status, keeping the old updated_at.
UpsertKeepsTime(rows, rom, status, at) ==
    IF RowsOf(rows, rom) # {}
    THEN {IF r.rom = rom THEN [r EXCEPT !.status = status] ELSE r : r \in rows}
    ELSE rows \cup {[rom |-> rom, status |-> status, updated_at |-> at]}

\* INSERT ... VALUES (?, ?, datetime('now')) ON CONFLICT(rom) DO UPDATE SET
\* status=excluded.status, updated_at=datetime('now')
Upsert(rows, rom, status, at) ==
    IF RowsOf(rows, rom) # {}
    THEN {IF r.rom = rom THEN [r EXCEPT !.status = status, !.updated_at = at] ELSE r
          : r \in rows}
    ELSE rows \cup {[rom |-> rom, status |-> status, updated_at |-> at]}

\* DELETE FROM game_status WHERE rom=?, leaving the row in place.
DeleteKeepsRow(rows, rom) == rows

\* DELETE FROM game_status WHERE rom=?
Delete(rows, rom) == rows \ RowsOf(rows, rom)

\* The statement set_status executes for an already non-empty normalized rom.
Statement(rows, rom, status, at) ==
    IF status = None THEN Delete(rows, rom) ELSE Upsert(rows, rom, status, at)

\* get_all_statuses reading the rom column alone: every rom maps to None.
get_all_statuses_keys_only(rows) ==
    [k \in {StrNorm(r.rom) : r \in {x \in rows : x.rom # <<>>}} |-> None]

\* get_all_statuses over the committed rows.
get_all_statuses(rows) ==
    LET kept == {r \in rows : r.rom # <<>>}
        keys == {StrNorm(r.rom) : r \in kept}
    IN  [k \in keys |-> (CHOOSE r \in kept : StrNorm(r.rom) = k).status]

\* status_for_rom in session s.
status_for_rom(s, rom) ==
    LET r == NormRom(rom)
    IN  IF r = <<>> THEN None ELSE DictGet(status_cache[s], r)

NoFrame == [rom |-> <<>>, new_status |-> None, at |-> 0]

NeverSet == [status |-> None, at |-> 0]

\* The status store and the ADB state when the first session begins.
StoreInit ==
    /\ game_status = {}
    /\ now = 0
    /\ txn = [s \in Sessions |-> <<>>]
    /\ status_cache = [s \in Sessions |-> EmptyDict]
    /\ status_cache_loaded = [s \in Sessions |-> FALSE]
    /\ pc = [s \in Sessions |-> "idle"]
    /\ frame = [s \in Sessions |-> NoFrame]
    /\ raised = [s \in Sessions |-> FALSE]
    /\ last_set = [k \in RomKeys |-> NeverSet]
    /\ cache_before = [s \in Sessions |-> EmptyDict]
    /\ adb_cache = EmptyDict
    /\ adb_autoload_global = FALSE
    /\ adb_autoload_by_rom = EmptyDict
    /\ adb_pc = "idle"
    /\ adb_frame = <<>>
    /\ adb_response = <<>>
    /\ adb_data = <<>>
    /\ adb_arg = <<>>
    /\ adb_https = <<>>
    /\ requests = 0

\* No game_key call, script run or click has happened; the dataset is data
\* and the local time is start.
RestIdleAt(data, start) ==
    /\ no_rom_call = <<>>
    /\ img_in = <<>>
    /\ img_out = <<>>
    /\ sum_in = <<>>
    /\ sum_out = <<>>
    /\ favorites = <<>>
    /\ fav_event = [op |-> "", key |-> <<>>, upload |-> [kind |-> "", favs |-> <<>>], msg |-> ""]
    /\ key_calls = <<>>
    /\ df = data
    /\ clock = start
    /\ elapsed = 0
    /\ hits = <<>>
    /\ seed_at = <<>>
    /\ seed = 0
    /\ seed_int = 0
    /\ gotd = <<>>
    /\ gotd_v14 = <<>>
    /\ selected_key = <<>>
    /\ picked_rows = <<>>
    /\ shown_pick = <<>>
    /\ last_click = ""
    /\ pick_warned = FALSE
    /\ pick_raised = FALSE
    /\ det_call = <<>>
    /\ art_pc = "idle"
    /\ art_rom = <<>>
    /\ art_exists = {}
    /\ art_i = 0
    /\ art_tried = <<>>
    /\ art_shown = <<>>
    /\ art_caption = ""

RestIdle == RestIdleAt(Games, [y |-> 2023, m |-> 12, d |-> 30, h |-> 0])

Init == StoreInit /\ RestIdle

\* The store's clock advances.
Tick ==
    /\ now < MaxClock
    /\ now' = now + 1
    /\ UNCHANGED <<game_status, txn, status_cache, status_cache_loaded, pc, frame,
                   raised, last_set, cache_before>>
    /\ UNCHANGED <<adbVars, restVars>>

\* load_status_cache_once, run by every script run of the session.
load_status_cache_once(s) ==
    /\ pc[s] = "idle"
    /\ IF ~status_cache_loaded[s]
       THEN /\ status_cache' = [status_cache EXCEPT ![s] = get_all_statuses(game_status)]
            /\ status_cache_loaded' = [status_cache_loaded EXCEPT ![s] = TRUE]
            /\ cache_before' = [cache_before EXCEPT ![s] = status_cache'[s]]
       ELSE UNCHANGED <<status_cache, status_cache_loaded, cache_before>>
    /\ UNCHANGED <<game_status, now, txn, pc, frame, raised, last_set>>
    /\ UNCHANGED <<adbVars, restVars>>

\* Connections that write without excluding one another.
NoLock(s) == TRUE

\* SQLite lets one connection at a time hold an open write transaction.
CanWrite(s) == \A t \in Sessions \ {s} : txn[t] = <<>>

\* The roms that (rom or "").strip().lower() turns into "".
EmptyRoms == {NoneRom, <<>>, <<" ">>, <<" ", " ">>}

\* update_status without "if not rom: return": set_status returns at once,
\* and the cache is written under the empty rom.
update_status_no_rom_unchecked(s, rom, new_status) ==
    /\ pc[s] = "idle"
    /\ status_cache_loaded[s]
    /\ NormRom(rom) = <<>>
    /\ no_rom_call' = <<[fn |-> "update_status", rom |-> rom, new_status |-> new_status]>>
    /\ raised' = [raised EXCEPT ![s] = FALSE]
    /\ frame' = [frame EXCEPT ![s] = NoFrame]
    /\ cache_before' = [cache_before EXCEPT ![s] = status_cache[s]]
    /\ status_cache' = [status_cache EXCEPT ![s] =
                          IF new_status = None THEN DictPop(status_cache[s], <<>>)
                          ELSE DictSet(status_cache[s], <<>>, new_status)]
    /\ UNCHANGED <<game_status, now, txn, status_cache_loaded, pc, last_set>>
    /\ UNCHANGED notCall

\* update_status(rom, new_status) with an empty rom: returns at once.
update_status_no_rom(s, rom, new_status) ==
    /\ pc[s] = "idle"
    /\ status_cache_loaded[s]
    /\ NormRom(rom) = <<>>
    /\ no_rom_call' = <<[fn |-> "update_status", rom |-> rom, new_status |-> new_status]>>
    /\ raised' = [raised EXCEPT ![s] = FALSE]
    /\ frame' = [frame EXCEPT ![s] = NoFrame]
    /\ cache_before' = [cache_before EXCEPT ![s] = status_cache[s]]
    /\ UNCHANGED <<game_status, now, txn, status_cache, status_cache_loaded, pc, last_set>>
    /\ UNCHANGED notCall

\* set_status(rom, status) with an empty rom: returns before get_db().
set_status_no_rom(s, rom, new_status) ==
    /\ pc[s] = "idle"
    /\ NormRom(rom) = <<>>
    /\ no_rom_call' = <<[fn |-> "set_status", rom |-> rom, new_status |-> new_status]>>
    /\ raised' = [raised EXCEPT ![s] = FALSE]
    /\ UNCHANGED <<game_status, now, txn, status_cache, status_cache_loaded, pc, frame,
                   last_set, cache_before>>
    /\ UNCHANGED notCall

\* update_status calls set_status, whose statement executes in a transaction
\* of a new connection: conn.execute(...).
set_status_execute(s, rom, new_status) ==
    /\ pc[s] = "idle"
    /\ status_cache_loaded[s]
    /\ NormRom(rom) # <<>>
    /\ NormRom(NormRom(rom)) # <<>>
    /\ CanWrite(s)
    /\ txn' = [txn EXCEPT ![s] =
                 <<Statement(game_status, NormRom(NormRom(rom)), new_status, now)>>]
    /\ frame' = [frame EXCEPT ![s] =
                   [rom |-> NormRom(rom), new_status |-> new_status,
                    at |-> IF new_status = None THEN 0 ELSE now]]
    /\ pc' = [pc EXCEPT ![s] = "commit"]
    /\ raised' = [raised EXCEPT ![s] = FALSE]
    /\ cache_before' = [cache_before EXCEPT ![s] = status_cache[s]]
    /\ UNCHANGED <<game_status, now, status_cache, status_cache_loaded, last_set>>
    /\ UNCHANGED <<adbVars, restVars>>

\* get_db() or conn.execute raises (database unavailable or locked): the
\* exception leaves set_status and update_status.
set_status_execute_raises(s, rom, new_status) ==
    /\ pc[s] = "idle"
    /\ status_cache_loaded[s]
    /\ NormRom(rom) # <<>>
    /\ raised' = [raised EXCEPT ![s] = TRUE]
    /\ frame' = [frame EXCEPT ![s] = NoFrame]
    /\ cache_before' = [cache_before EXCEPT ![s] = status_cache[s]]
    /\ UNCHANGED <<game_status, now, txn, status_cache, status_cache_loaded, pc, last_set>>
    /\ UNCHANGED <<adbVars, restVars>>

\* conn.commit(); conn.close(): the transaction becomes the table.
set_status_commit(s) ==
    /\ pc[s] = "commit"
    /\ game_status' = txn[s][1]
    /\ txn' = [txn EXCEPT ![s] = <<>>]
    /\ last_set' = [last_set EXCEPT ![frame[s].rom] =
                      IF frame[s].new_status = None
                      THEN NeverSet
                      ELSE [status |-> frame[s].new_status, at |-> frame[s].at]]
    /\ pc' = [pc EXCEPT ![s] = "cache"]
    /\ UNCHANGED <<now, status_cache, status_cache_loaded, frame, raised, cache_before>>
    /\ UNCHANGED <<adbVars, restVars>>

\* conn.commit() raises in an update_status that wrote the cache before it
\* called set_status.
set_status_commit_raises_cache_written(s) ==
    /\ pc[s] = "commit"
    /\ txn' = [txn EXCEPT ![s] = <<>>]
    /\ status_cache' = [status_cache EXCEPT ![s] =
                          IF frame[s].new_status = None
                          THEN DictPop(status_cache[s], frame[s].rom)
                          ELSE DictSet(status_cache[s], frame[s].rom, frame[s].new_status)]
    /\ pc' = [pc EXCEPT ![s] = "idle"]
    /\ frame' = [frame EXCEPT ![s] = NoFrame]
    /\ raised' = [raised EXCEPT ![s] = TRUE]
    /\ UNCHANGED <<game_status, now, status_cache_loaded, last_set, cache_before>>
    /\ UNCHANGED <<adbVars, restVars>>

\* conn.commit() raises: the transaction is rolled back with its connection
\* and the exception leaves set_status and update_status.
set_status_commit_raises(s) ==
    /\ pc[s] = "commit"
    /\ txn' = [txn EXCEPT ![s] = <<>>]
    /\ pc' = [pc EXCEPT ![s] = "idle"]
    /\ frame' = [frame EXCEPT ![s] = NoFrame]
    /\ raised' = [raised EXCEPT ![s] = TRUE]
    /\ UNCHANGED <<game_status, now, status_cache, status_cache_loaded, last_set,
                   cache_before>>
    /\ UNCHANGED <<adbVars, restVars>>

\* status_cache[rom] = new_status on every path, None included.
WriteThroughKeepsKey(cache, rom, new_status) == DictSet(cache, rom, new_status)

\* The rest of update_status once set_status has returned.
WriteThrough(cache, rom, new_status) ==
    IF new_status = None THEN DictPop(cache, rom) ELSE DictSet(cache, rom, new_status)

update_status_cache(s) ==
    /\ pc[s] = "cache"
    /\ status_cache' = [status_cache EXCEPT ![s] =
                          WriteThrough(status_cache[s], frame[s].rom, frame[s].new_status)]
    /\ cache_before' = [cache_before EXCEPT ![s] = status_cache'[s]]
    /\ pc' = [pc EXCEPT ![s] = "idle"]
    /\ frame' = [frame EXCEPT ![s] = NoFrame]
    /\ UNCHANGED <<game_status, now, txn, status_cache_loaded, raised, last_set>>
    /\ UNCHANGED <<adbVars, restVars>>

SessionStep(s) ==
    \/ load_status_cache_once(s)
    \/ \E rom \in RawRoms, st \in StatusArgs : set_status_execute(s, rom, st)
    \/ \E rom \in RawRoms, st \in StatusArgs : set_status_execute_raises(s, rom, st)
    \/ set_status_commit(s)
    \/ set_status_commit_raises(s)
    \/ update_status_cache(s)

Next ==
    \/ Tick
    \/ \E s \in Sessions : SessionStep(s)

Spec == Init /\ [][Next]_vars

(***************************************************************************)
(* One session alone on a store that earlier runs may have filled.         *)
(***************************************************************************)
Solo == "s1"

\* The tables set_status can have left in the database file.
StoredTables ==
    {{[rom |-> k, status |-> f[k], updated_at |-> 0] : k \in DOMAIN f} :
        f \in UNION {[D -> Statuses] : D \in SUBSET RomKeys}}

InitSolo ==
    /\ game_status \in StoredTables
    /\ now = 0
    /\ txn = [s \in Sessions |-> <<>>]
    /\ status_cache = [s \in Sessions |-> EmptyDict]
    /\ status_cache_loaded = [s \in Sessions |-> FALSE]
    /\ pc = [s \in Sessions |-> "idle"]
    /\ frame = [s \in Sessions |-> NoFrame]
    /\ raised = [s \in Sessions |-> FALSE]
    /\ last_set = [k \in RomKeys |->
                     IF RowsOf(game_status, k) = {}
                     THEN NeverSet
                     ELSE [status |-> (CHOOSE r \in RowsOf(game_status, k) : TRUE).status,
                           at |-> 0]]
    /\ cache_before = [s \in Sessions |-> EmptyDict]
    /\ adb_cache = EmptyDict
    /\ adb_autoload_global = FALSE
    /\ adb_autoload_by_rom = EmptyDict
    /\ adb_pc = "idle"
    /\ adb_frame = <<>>
    /\ adb_response = <<>>
    /\ adb_data = <<>>
    /\ adb_arg = <<>>
    /\ adb_https = <<>>
    /\ requests = 0
    /\ RestIdle

NextSolo ==
    \/ Tick
    \/ SessionStep(Solo)
    \/ \E rom \in EmptyRoms, st \in StatusArgs : update_status_no_rom(Solo, rom, st)
    \/ \E rom \in EmptyRoms, st \in StatusArgs : set_status_no_rom(Solo, rom, st)

SpecSolo == InitSolo /\ [][NextSolo]_vars

(***************************************************************************)
(* The ADB (ArcadeItalia) client of one session                            *)
(***************************************************************************)

\* Most HTTP requests the model lets the session issue.
MaxRequests == 3

\* adb_urls(rom)["page_http"] and ["scraper_http"], as the prefix and the rom.
PageUrl(rom) == <<"http://adb.arcadeitalia.net/?mame=", rom>>

ScraperUrl(rom) == <<"http://adb.arcadeitalia.net/service_scraper.php?game_name=", rom>>

\* What urlopen and json.loads can do with one request: the body parses to
\* a JSON object, to another JSON value, or an exception with text str(e).
Responses ==
    {[kind |-> "dict", value |-> ("title" :> "v1")],
     [kind |-> "dict", value |-> ("title" :> "v2")],
     [kind |-> "other", value |-> <<"v1">>],
     [kind |-> "raise", value |-> "timed out"],
     [kind |-> "raise", value |-> ""]}

\* What the same query sent over https:// can be answered with.
HttpsResponses ==
    {[kind |-> "dict", value |-> ("title" :> "v1")],
     [kind |-> "raise", value |-> "timed out"]}

\* fetch_json_url's result for a body that parsed.
JsonResult(resp) ==
    IF resp.kind = "dict" THEN resp.value ELSE ("_data" :> resp.value)

\* The error descriptor with str(e) as it is and without the page URL.
ErrorDescriptorBare(rom, last_err) ==
    ("_error" :> "Could not retrieve data from ADB right now.")
    @@ ("_detail" :> last_err)
    @@ ("_rom" :> rom)

\* The error descriptor fetch_adb_details builds when the request failed.
ErrorDescriptor(rom, last_err) ==
    ("_error" :> "Could not retrieve data from ADB right now.")
    @@ ("_detail" :> IF last_err = "" THEN "Unknown error" ELSE last_err)
    @@ ("_rom" :> rom)
    @@ ("_fallback_page" :> PageUrl(rom))

\* bool(data.get("_error"))
HasError(data) == "_error" \in DOMAIN data /\ data["_error"] # ""

\* if rom in st.session_state.adb_cache ... with the check left out.
CacheNeverHit(cache, rom) == FALSE

\* fetch_adb_details: if rom in st.session_state.adb_cache
CacheHit(cache, rom) == rom \in DOMAIN cache

\* if refresh_btn and rom in adb_cache: del adb_cache[rom], with the del left out.
EvictNothing(cache, rom, refresh_btn) == cache

\* del adb_cache[rom] on every render of the block.
EvictAlways(cache, rom, refresh_btn) ==
    IF rom \in DOMAIN cache THEN DictPop(cache, rom) ELSE cache

\* show_adb_block: if refresh_btn and rom in adb_cache: del adb_cache[rom]
Evict(cache, rom, refresh_btn) ==
    IF refresh_btn /\ rom \in DOMAIN cache THEN DictPop(cache, rom) ELSE cache

\* show_adb_block: should_autoload_now
ShouldAutoload(cache, rom, auto_val) ==
    auto_val /\ (rom \notin DOMAIN cache \/ HasError(cache[rom]))

\* A failed fetch that leaves the cache as it is.
FailureNotStored(cache, rom, out) == cache

\* fetch_adb_details: st.session_state.adb_cache[rom] = out
StoreFailure(cache, rom, out) == DictSet(cache, rom, out)

\* adb_autoload_effective(rom)
adb_autoload_effective(rom) ==
    IF NormRom(rom) = <<>> THEN FALSE
    ELSE IF NormRom(rom) \in DOMAIN adb_autoload_by_rom
         THEN adb_autoload_by_rom[NormRom(rom)]
         ELSE adb_autoload_global

\* What the widgets of the expander can return in a script run: the toggle
\* starts at its default and the two buttons cannot have been clicked before
\* the block was rendered once for the rom; one click starts a run.
WidgetInputs(rom) ==
    IF rom \in DOMAIN adb_autoload_by_rom
    THEN {[auto_val |-> a, load_btn |-> b[1], refresh_btn |-> b[2]] :
             a \in BOOLEAN, b \in {<<FALSE, FALSE>>, <<TRUE, FALSE>>, <<FALSE, TRUE>>}}
    ELSE {[auto_val |-> adb_autoload_effective(rom), load_btn |-> FALSE,
           refresh_btn |-> FALSE]}

\* The sidebar toggle "Auto-load ADB details when opening a game".
toggle_autoload_global ==
    /\ adb_pc = "idle"
    /\ adb_autoload_global' = ~adb_autoload_global
    /\ UNCHANGED <<adb_cache, adb_autoload_by_rom, adb_pc, adb_frame, adb_response,
                   adb_data, adb_arg, adb_https, requests>>
    /\ UNCHANGED <<statusVars, restVars>>

\* show_adb_block(rom) for a rom that is empty after normalization.
show_adb_block_no_rom(rom) ==
    /\ adb_pc = "idle"
    /\ NormRom(rom) = <<>>
    /\ adb_data' = <<>>
    /\ adb_frame' = <<>>
    /\ adb_arg' = <<>>
    /\ UNCHANGED <<adb_cache, adb_autoload_global, adb_autoload_by_rom, adb_pc,
                   adb_response, adb_https, requests>>
    /\ UNCHANGED <<statusVars, restVars>>

\* fetch_adb_details: return {"_error": "No ROM short name available for this game."}
NoRomError == ("_error" :> "No ROM short name available for this game.")

\* fetch_adb_details(rom) without the rom check: the request goes out and the
\* failure is cached under the empty rom.
fetch_adb_details_no_rom_unchecked(rom) ==
    /\ adb_pc = "idle"
    /\ NormRom(rom) = <<>>
    /\ requests < MaxRequests
    /\ requests' = requests + 1
    /\ adb_cache' = StoreFailure(adb_cache, <<>>, ErrorDescriptor(<<>>, "HTTP Error 404"))
    /\ adb_data' = <<adb_cache'[<<>>]>>
    /\ adb_frame' = <<>>
    /\ adb_arg' = <<rom>>
    /\ UNCHANGED <<adb_autoload_global, adb_autoload_by_rom, adb_pc, adb_response,
                   adb_https>>
    /\ UNCHANGED <<statusVars, restVars>>

\* fetch_adb_details(rom), called with a rom that is empty after normalization.
fetch_adb_details_no_rom(rom) ==
    /\ adb_pc = "idle"
    /\ NormRom(rom) = <<>>
    /\ adb_data' = <<NoRomError>>
    /\ adb_frame' = <<>>
    /\ adb_arg' = <<rom>>
    /\ UNCHANGED <<adb_cache, adb_autoload_global, adb_autoload_by_rom, adb_pc,
                   adb_response, adb_https, requests>>
    /\ UNCHANGED <<statusVars, restVars>>

\* show_adb_block(rom) up to the point where it returns or urlopen waits.
show_adb_block(rom, w) ==
    LET r == NormRom(rom)
        cache1 == Evict(adb_cache, r, w.refresh_btn)
        should_autoload_now == ShouldAutoload(cache1, r, w.auto_val)
        fetches == w.load_btn \/ w.refresh_btn \/ should_autoload_now
        \* fetch_adb_details(rom): normalizes again, then looks in the cache
        r2 == NormRom(r)
        sends == fetches /\ r2 # <<>> /\ ~CacheHit(cache1, r2)
    IN  /\ adb_pc = "idle"
        /\ r # <<>>
        /\ w \in WidgetInputs(r)
        /\ sends => requests < MaxRequests
        /\ adb_autoload_by_rom' = DictSet(adb_autoload_by_rom, r, w.auto_val)
        /\ adb_frame' = <<[rom |-> r, auto_val |-> w.auto_val, load_btn |-> w.load_btn,
                           refresh_btn |-> w.refresh_btn, sent |-> sends,
                           stale |-> IF r \in DOMAIN adb_cache /\ r \notin DOMAIN cache1
                                     THEN <<adb_cache[r]>> ELSE <<>>]>>
        /\ adb_cache' = cache1
        /\ adb_arg' = <<>>
        /\ IF r \notin DOMAIN cache1 /\ ~w.load_btn /\ ~w.refresh_btn /\ ~should_autoload_now
           THEN adb_data' = <<>> /\ UNCHANGED <<adb_pc, requests>>
           ELSE IF sends
                THEN /\ adb_pc' = "fetching"
                     /\ requests' = requests + 1
                     /\ adb_data' = <<>>
                ELSE /\ adb_data' = <<cache1[r]>>
                     /\ UNCHANGED <<adb_pc, requests>>
        /\ UNCHANGED <<adb_autoload_global, adb_response, adb_https>>
        /\ UNCHANGED <<statusVars, restVars>>

\* The request ends: a body arrives, or urlopen gives up. The same query over
\* https:// would have been answered by alt.
request_ends(resp, alt) ==
    /\ adb_pc = "fetching"
    /\ adb_pc' = "responded"
    /\ adb_response' = <<resp>>
    /\ adb_https' = <<alt>>
    /\ UNCHANGED <<adb_cache, adb_autoload_global, adb_autoload_by_rom, adb_frame, adb_data,
                   adb_arg, requests>>
    /\ UNCHANGED <<statusVars, restVars>>

\* fetch_json_url returns or raises; fetch_adb_details caches what it returns.
fetch_adb_details_ends ==
    LET r == adb_frame[1].rom
        resp == adb_response[1]
        out == ErrorDescriptor(r, resp.value)
    IN  /\ adb_pc = "responded"
        /\ IF resp.kind # "raise"
           THEN /\ adb_cache' = DictSet(adb_cache, r, JsonResult(resp))
                /\ adb_data' = <<JsonResult(resp)>>
           ELSE /\ adb_cache' = StoreFailure(adb_cache, r, out)
                /\ adb_data' = <<out>>
        /\ adb_pc' = "idle"
        /\ adb_response' = <<>>
        /\ UNCHANGED <<adb_autoload_global, adb_autoload_by_rom, adb_frame, adb_arg,
                       adb_https, requests>>
        /\ UNCHANGED <<statusVars, restVars>>

NextAdb ==
    \/ toggle_autoload_global
    \/ \E rom \in RawRoms : show_adb_block_no_rom(rom)
    \/ \E rom \in EmptyRoms : fetch_adb_details_no_rom(rom)
    \/ \E rom \in RawRoms, w \in [auto_val : BOOLEAN, load_btn : BOOLEAN,
                                 refresh_btn : BOOLEAN] : show_adb_block(rom, w)
    \/ \E resp \in Responses, alt \in HttpsResponses : request_ends(resp, alt)
    \/ fetch_adb_details_ends

SpecAdb == Init /\ [][NextAdb]_vars

(***************************************************************************)
(* game_key                                                                *)
(***************************************************************************)

\* The rows game_key is called with: a rom cell as read or as normalized, a
\* title, an integer year and a company.
KeyRoms == {NoneRom, <<>>, <<" ">>, <<"a">>, <<" ", "A">>}
KeyTitles == {<<"a">>, <<"a", " ">>, <<"A">>, <<"a", "|", "1", "9", "8", "0">>}
KeyYears == {1980, 1981}
KeyCompanies == {<<>>, <<"b">>, <<"1", "9", "8", "1", "|", "b">>}
KeyRows == [rom : KeyRoms, game : KeyTitles, year : KeyYears, company : KeyCompanies]

\* normalize_str(x): "" for a missing value, str(x).strip() otherwise
normalize_str(x) == IF x = NoneRom THEN <<>> ELSE Strip(x)

\* str(d) for one decimal digit
Digit(d) ==
    CASE d = 0 -> "0" [] d = 1 -> "1" [] d = 2 -> "2" [] d = 3 -> "3" [] d = 4 -> "4"
      [] d = 5 -> "5" [] d = 6 -> "6" [] d = 7 -> "7" [] d = 8 -> "8" [] d = 9 -> "9"

\* str(n) of an int, as the f-string formats it
RECURSIVE IntStr(_)
IntStr(n) ==
    IF n < 0 THEN <<"-">> \o IntStr(0 - n)
    ELSE IF n < 10 THEN <<Digit(n)>>
    ELSE IntStr(n \div 10) \o <<Digit(n % 10)>>

RomPrefix == <<"r", "o", "m", ":">>
MetaPrefix == <<"m", "e", "t", "a", ":">>

\* game_key without .lower() on the rom.
game_key_no_lower(row) ==
    LET rom == normalize_str(row.rom)
    IN  IF rom # <<>>
        THEN RomPrefix \o rom
        ELSE MetaPrefix \o normalize_str(row.game) \o <<"|">> \o IntStr(row.year)
                 \o <<"|">> \o normalize_str(row.company)

\* game_key with the company left out of the composite key.
game_key_no_company(row) ==
    LET rom == LowerStr(normalize_str(row.rom))
    IN  IF rom # <<>>
        THEN RomPrefix \o rom
        ELSE MetaPrefix \o normalize_str(row.game) \o <<"|">> \o IntStr(row.year)

\* game_key(row)
game_key(row) ==
    LET rom == LowerStr(normalize_str(row.rom))
    IN  IF rom # <<>>
        THEN RomPrefix \o rom
        ELSE MetaPrefix \o normalize_str(row.game) \o <<"|">> \o IntStr(row.year)
                 \o <<"|">> \o normalize_str(row.company)

\* One call of game_key.
game_key_call(row) ==
    /\ key_calls' = (IF key_calls = <<>> THEN <<>> ELSE <<key_calls[Len(key_calls)]>>)
                        \o <<[row |-> row, key |-> game_key(row)]>>
    /\ UNCHANGED exceptKey

NextKey == \E row \in KeyRows : game_key_call(row)

SpecKey == Init /\ [][NextKey]_vars

(***************************************************************************)
(* The candidate list: filters, then sort_values(["year", "game"])         *)
(***************************************************************************)

\* ord(c)
Ord(c) ==
    CASE c = " " -> 32 [] c = "A" -> 65 [] c = "B" -> 66 [] c = "a" -> 97 [] c = "b" -> 98
      [] c = "|" -> 124
      [] c = "0" -> 48 [] c = "1" -> 49 [] c = "2" -> 50 [] c = "3" -> 51 [] c = "4" -> 52
      [] c = "5" -> 53 [] c = "6" -> 54 [] c = "7" -> 55 [] c = "8" -> 56 [] c = "9" -> 57

\* s < t on Python strings
RECURSIVE LexLess(_, _)
LexLess(s, t) ==
    IF t = <<>> THEN FALSE
    ELSE IF s = <<>> THEN TRUE
    ELSE IF Ord(s[1]) # Ord(t[1]) THEN Ord(s[1]) < Ord(t[1])
    ELSE LexLess(Tail(s), Tail(t))

\* The order of sort_values(["year", "game"]).
RowBefore(a, b) == a.year < b.year \/ (a.year = b.year /\ LexLess(a.game, b.game))

RECURSIVE InsertSorted(_, _)
InsertSorted(r, s) ==
    IF s = <<>> THEN <<r>>
    ELSE IF RowBefore(r, s[1]) THEN <<r>> \o s
    ELSE <<s[1]>> \o InsertSorted(r, Tail(s))

\* rows.sort_values(["year", "game"]).reset_index(drop=True)
RECURSIVE sort_values(_)
sort_values(rows) ==
    IF rows = <<>> THEN <<>>
    ELSE InsertSorted(rows[Len(rows)], sort_values(SubSeq(rows, 1, Len(rows) - 1)))

\* The rows the filters keep: those at the positions in keep, in file order.
RECURSIVE FilterRows(_, _)
FilterRows(rows, keep) ==
    IF rows = <<>> THEN <<>>
    ELSE FilterRows(SubSeq(rows, 1, Len(rows) - 1), keep)
            \o (IF Len(rows) \in keep THEN <<rows[Len(rows)]>> ELSE <<>>)

(***************************************************************************)
(* The calendar, strftime and int()                                        *)
(***************************************************************************)
IsLeap(y) == (y % 4 = 0 /\ y % 100 # 0) \/ y % 400 = 0

DaysIn(y, mo) ==
    IF mo = 2 THEN (IF IsLeap(y) THEN 29 ELSE 28)
    ELSE IF mo \in {4, 6, 9, 11} THEN 30 ELSE 31

\* The local time one half day on: the late hour of the same day, or the
\* first hour of the next day.
LaterClock(c) ==
    IF c.h = 0 THEN [c EXCEPT !.h = 23]
    ELSE IF c.d < DaysIn(c.y, c.m) THEN [c EXCEPT !.d = c.d + 1, !.h = 0]
    ELSE IF c.m < 12 THEN [c EXCEPT !.m = c.m + 1, !.d = 1, !.h = 0]
    ELSE [y |-> c.y + 1, m |-> 1, d |-> 1, h |-> 0]

RECURSIVE DaysBefore(_, _)
DaysBefore(y, mo) == IF mo = 1 THEN 0 ELSE DaysBefore(y, mo - 1) + DaysIn(y, mo - 1)

\* The day of the year, 1 for January 1.
DayOfYear(c) == DaysBefore(c.y, c.m) + c.d

\* A number formatted by strftime: str(n), zero-padded to width w.
RECURSIVE ZeroPad(_, _)
ZeroPad(s, w) == IF Len(s) >= w THEN s ELSE ZeroPad(<<"0">> \o s, w)

DigitVal(c) == CHOOSE d \in 0..9 : Digit(d) = c

\* int(s) for a string of decimal digits
RECURSIVE StrInt(_)
StrInt(s) ==
    IF s = <<>> THEN 0
    ELSE 10 * StrInt(SubSeq(s, 1, Len(s) - 1)) + DigitVal(s[Len(s)])

\* now.strftime("%Y"), ("%j"), ("%Y%m%d")
StrfY(c) == ZeroPad(IntStr(c.y), 4)
Strfj(c) == ZeroPad(IntStr(DayOfYear(c)), 3)
StrfYmd(c) == ZeroPad(IntStr(c.y), 4) \o ZeroPad(IntStr(c.m), 2) \o ZeroPad(IntStr(c.d), 2)

\* A seed with the day written before the month.
SeedDayFirst(c) ==
    StrInt(ZeroPad(IntStr(c.y), 4) \o ZeroPad(IntStr(c.d), 2) \o ZeroPad(IntStr(c.m), 2))

\* appv1_4.py: seed_int = int(datetime.now(TZ).strftime("%Y%m%d"))
SeedV14(c) == StrInt(StrfYmd(c))

\* app.py: seed = int(now.strftime("%Y")) * 1000 + int(now.strftime("%j"))
SeedApp(c) == StrInt(StrfY(c)) * 1000 + StrInt(Strfj(c))

(***************************************************************************)
(* The picks                                                               *)
(***************************************************************************)

\* hits.sample(n) takes n rows of hits.
PickCount == 10

\* The seeds deterministic_pick is called with outside a script run.
DetSeeds == {-7, -1, 0, 2, 3, 20240101}

\* len(hits) == 0 taken to be false.
NoRowsNever(rows) == FALSE

\* len(hits) == 0
NoRows(rows) == Len(rows) = 0

\* The result of a call: out is <<>> for None or <<row>>; raised says that
\* the call ended in an exception instead.
Returned(out) == [raised |-> FALSE, out |-> out]
Raised == [raised |-> TRUE, out |-> <<>>]

\* deterministic_pick with idx counted from one.
deterministic_pick_from_one(df_in, s) ==
    IF NoRows(df_in) THEN Returned(<<>>)
    ELSE IF Len(df_in) = 0 THEN Raised
    ELSE Returned(<<df_in[((s + 1) % Len(df_in)) + 1]>>)

\* deterministic_pick that returns the first row.
deterministic_pick_first(df_in, s) ==
    IF NoRows(df_in) THEN Returned(<<>>)
    ELSE IF Len(df_in) = 0 THEN Raised
    ELSE Returned(<<df_in[1]>>)

\* appv1_4.py deterministic_pick(df_in, seed_int); seed_int % 0 raises
\* ZeroDivisionError, iloc counts from zero.
deterministic_pick(df_in, s) ==
    IF NoRows(df_in) THEN Returned(<<>>)
    ELSE IF Len(df_in) = 0 THEN Raised
    ELSE Returned(<<df_in[(s % Len(df_in)) + 1]>>)

\* app.py: if len(hits) > 0: gotd = hits.iloc[seed % len(hits)]
GameOfTheDay(rows, s) ==
    IF ~NoRows(rows)
    THEN (IF Len(rows) = 0 THEN Raised ELSE Returned(<<rows[(s % Len(rows)) + 1]>>))
    ELSE Returned(<<>>)

\* A sample that may take a position more than once.
SampleWithReplacement(rows, n) ==
    {[i \in 1..n |-> rows[p[i]]] : p \in [1..n -> 1..Len(rows)]}

\* What rows.sample(n) can return for n <= len(rows): n rows at different
\* positions, in any order.
Sample(rows, n) ==
    {[i \in 1..n |-> rows[p[i]]] :
        p \in {q \in [1..n -> 1..Len(rows)] : \A i, j \in 1..n : i # j => q[i] # q[j]}}

Min(a, b) == IF a < b THEN a ELSE b

\* The Game of the Day part of a script run over the candidates rows, both
\* versions; before says that the run has raised already.
GameOfTheDayPart(rows) ==
    /\ hits' = rows
    /\ seed_at' = <<clock>>
    /\ seed' = SeedApp(clock)
    /\ seed_int' = SeedV14(clock)
    /\ gotd' = GameOfTheDay(rows, SeedApp(clock)).out
    /\ gotd_v14' = deterministic_pick(rows, SeedV14(clock)).out
    /\ pick_raised' = (GameOfTheDay(rows, SeedApp(clock)).raised
                         \/ deterministic_pick(rows, SeedV14(clock)).raised)

\* A script run that raises before the Game of the Day part.
RunRaises ==
    /\ pick_raised' = TRUE
    /\ UNCHANGED <<hits, seed_at, seed, seed_int, gotd, gotd_v14, selected_key, picked_rows,
                   shown_pick, pick_warned>>

\* The clock moves on.
tick ==
    /\ clock.h = 23 => elapsed < MaxDays
    /\ clock' = LaterClock(clock)
    /\ elapsed' = IF clock.h = 23 THEN elapsed + 1 ELSE elapsed
    /\ UNCHANGED <<df, hits, seed_at, seed, seed_int, gotd, gotd_v14, selected_key,
                   picked_rows, shown_pick, last_click, pick_warned, pick_raised, det_call>>
    /\ UNCHANGED exceptPick

\* A script run without a click: the filters keep the rows at keep.
script_run(keep) ==
    /\ last_click' = ""
    /\ pick_warned' = FALSE
    /\ shown_pick' = <<>>
    /\ det_call' = <<>>
    /\ GameOfTheDayPart(sort_values(FilterRows(df, keep)))
    /\ UNCHANGED <<df, clock, elapsed, selected_key, picked_rows>>
    /\ UNCHANGED exceptPick

\* app.py: "Clear selection", and the rerun it asks for.
clear_sel ==
    /\ seed_at # <<>>
    /\ last_click' = "clear_sel"
    /\ picked_rows' = <<>>
    /\ selected_key' = <<>>
    /\ pick_warned' = FALSE
    /\ shown_pick' = <<>>
    /\ det_call' = <<>>
    /\ GameOfTheDayPart(hits)
    /\ UNCHANGED <<df, clock, elapsed>>
    /\ UNCHANGED exceptPick

\* app.py: "Random"; hits.sample(1) of no rows raises ValueError.
pick_random ==
    /\ seed_at # <<>>
    /\ last_click' = "pick_random"
    /\ det_call' = <<>>
    /\ IF NoRows(hits)
       THEN /\ pick_warned' = TRUE
            /\ shown_pick' = <<>>
            /\ GameOfTheDayPart(hits)
            /\ UNCHANGED <<selected_key, picked_rows>>
       ELSE IF Len(hits) = 0
       THEN RunRaises
       ELSE /\ \E sample \in Sample(hits, 1) : selected_key' = <<game_key(sample[1])>>
            /\ pick_warned' = FALSE
            /\ shown_pick' = <<>>
            /\ GameOfTheDayPart(hits)
            /\ UNCHANGED picked_rows
    /\ UNCHANGED <<df, clock, elapsed>>
    /\ UNCHANGED exceptPick

\* app.py: "10 Picks"
pick_10 ==
    /\ seed_at # <<>>
    /\ last_click' = "pick_10"
    /\ det_call' = <<>>
    /\ IF NoRows(hits)
       THEN /\ pick_warned' = TRUE
            /\ shown_pick' = <<>>
            /\ GameOfTheDayPart(hits)
            /\ UNCHANGED <<selected_key, picked_rows>>
       ELSE IF Len(hits) = 0
       THEN \* picked_rows[0] of an empty list raises IndexError
            RunRaises
       ELSE /\ \E sample \in Sample(hits, Min(PickCount, Len(hits))) :
                  /\ picked_rows' = sample
                  /\ selected_key' = <<game_key(sample[1])>>
            /\ pick_warned' = FALSE
            /\ shown_pick' = <<>>
            /\ GameOfTheDayPart(hits)
    /\ UNCHANGED <<df, clock, elapsed>>
    /\ UNCHANGED exceptPick

\* app.py: "Open Game of the Day", a button the page has only when the last
\* run had a Game of the Day.
open_gotd ==
    /\ gotd # <<>>
    /\ last_click' = "open_gotd"
    /\ det_call' = <<>>
    /\ pick_warned' = FALSE
    /\ shown_pick' = <<>>
    /\ GameOfTheDayPart(hits)
    /\ IF gotd' # <<>>
       THEN selected_key' = <<game_key(gotd'[1])>>
       ELSE UNCHANGED selected_key
    /\ UNCHANGED <<df, clock, elapsed, picked_rows>>
    /\ UNCHANGED exceptPick

\* appv1_4.py: "Pick a Random Game", after the Game of the Day of the run.
pick_random_v14 ==
    /\ seed_at # <<>>
    /\ last_click' = "pick_random_v14"
    /\ det_call' = <<>>
    /\ GameOfTheDayPart(hits)
    /\ IF NoRows(hits)
       THEN pick_warned' = TRUE /\ shown_pick' = <<>>
       ELSE pick_warned' = FALSE /\ \E sample \in Sample(hits, 1) : shown_pick' = sample
    /\ UNCHANGED <<df, clock, elapsed, selected_key, picked_rows>>
    /\ UNCHANGED exceptPick

\* deterministic_pick(hits, s), called for its result alone.
deterministic_pick_call(s) ==
    /\ seed_at # <<>>
    /\ det_call' = <<[df_in |-> hits, seed_int |-> s,
                      out |-> deterministic_pick(hits, s).out,
                      raised |-> deterministic_pick(hits, s).raised]>>
    /\ UNCHANGED <<df, clock, elapsed, hits, seed_at, seed, seed_int, gotd, gotd_v14,
                   selected_key, picked_rows, shown_pick, last_click, pick_warned,
                   pick_raised>>
    /\ UNCHANGED exceptPick

\* The days of a session: script runs as the filters and the date change.
InitDay == StoreInit /\ \E c \in StartClocks : RestIdleAt(Games, c)

NextDay ==
    \/ tick
    \/ \E keep \in SUBSET (1..Len(df)) : script_run(keep)

SpecDay == InitDay /\ [][NextDay]_vars

\* The Discover panel of a session on a dataset of three rows.
InitPick == StoreInit /\ RestIdleAt(FewGames, [y |-> 2023, m |-> 12, d |-> 30, h |-> 0])

NextPick ==
    \/ \E keep \in SUBSET (1..Len(df)) : script_run(keep)
    \/ clear_sel
    \/ pick_random
    \/ pick_10
    \/ open_gotd
    \/ pick_random_v14
    \/ \E s \in DetSeeds : deterministic_pick_call(s)

SpecPick == InitPick /\ [][NextPick]_vars

(***************************************************************************)
(* app.py: the selection and the details panel                             *)
(***************************************************************************)

\* s.find(sep) + 1: where sep first begins in s, 0 when it does not occur
FindSub(s, sep) ==
    LET at == {i \in 1..(Len(s) - Len(sep) + 1) : SubSeq(s, i, i + Len(sep) - 1) = sep}
    IN  IF at = {} THEN 0 ELSE CHOOSE i \in at : \A j \in at : i <= j

\* int(s) of a string: <<n>>, or <<>> when int raises ValueError
PyInt(s) ==
    LET t == Strip(s)
        neg == t # <<>> /\ t[1] = "-"
        digits == IF neg THEN Tail(t) ELSE t
    IN  IF digits # <<>> /\ \A i \in DOMAIN digits : digits[i] \in {Digit(d) : d \in 0..9}
        THEN <<IF neg THEN 0 - StrInt(digits) ELSE StrInt(digits)>>
        ELSE <<>>

\* What the details panel does with the rows that match.
PanelOf(match) ==
    IF match = <<>>
    THEN [kind |-> "Selected game not found in dataset.", row |-> <<>>]
    ELSE [kind |-> "shown", row |-> <<match[1]>>]

Unresolved == [kind |-> "Could not resolve selection key.", row |-> <<>>]

\* The details panel with meta.split("|") in place of meta.split("|", 2).
DetailsPanelSplitAll(data, key) ==
    LET bar == <<"|">>
        meta == SubSeq(key, FindSub(key, MetaPrefix) + 5, Len(key))
        b1 == FindSub(meta, bar)
        rest == SubSeq(meta, b1 + 1, Len(meta))
        b2 == FindSub(rest, bar)
        company == SubSeq(rest, b2 + 1, Len(rest))
        year == PyInt(SubSeq(rest, 1, b2 - 1))
        ByRom(r) == r.rom = SubSeq(key, 5, Len(key))
        ByMeta(r) == r.game = SubSeq(meta, 1, b1 - 1) /\ r.year = year[1] /\ r.company = company
    IN  IF FindSub(key, RomPrefix) = 1 THEN PanelOf(SelectSeq(data, ByRom))
        ELSE IF FindSub(key, MetaPrefix) = 0 \/ b1 = 0 \/ b2 = 0 THEN Unresolved
        ELSE IF FindSub(company, bar) # 0 \/ year = <<>> THEN Unresolved
        ELSE PanelOf(SelectSeq(data, ByMeta))

\* The details panel of a script run whose selected_key is key: the row it
\* shows, or the warning it gives.
DetailsPanel(data, key) ==
    LET bar == <<"|">>
        \* _, meta = key.split("meta:", 1)
        meta == SubSeq(key, FindSub(key, MetaPrefix) + 5, Len(key))
        \* title, year_str, company = meta.split("|", 2)
        b1 == FindSub(meta, bar)
        rest == SubSeq(meta, b1 + 1, Len(meta))
        b2 == FindSub(rest, bar)
        company == SubSeq(rest, b2 + 1, Len(rest))
        year == PyInt(SubSeq(rest, 1, b2 - 1))
        ByRom(r) == r.rom = SubSeq(key, 5, Len(key))
        ByMeta(r) == r.game = SubSeq(meta, 1, b1 - 1) /\ r.year = year[1] /\ r.company = company
    IN  IF FindSub(key, RomPrefix) = 1 THEN PanelOf(SelectSeq(data, ByRom))
        ELSE IF FindSub(key, MetaPrefix) = 0 \/ b1 = 0 \/ b2 = 0 THEN Unresolved
        ELSE IF year = <<>> THEN Unresolved
        ELSE PanelOf(SelectSeq(data, ByMeta))

\* "Open selected" with the label of hits[i] in the selectbox: selected_row
\* is the first row of the view that has that label (no status is set).
open_selected(i) ==
    LET Label(r) == <<r.game, r.year, r.company>>
        idx == CHOOSE j \in DOMAIN hits :
                   Label(hits[j]) = Label(hits[i])
                   /\ \A k \in 1..(j - 1) : Label(hits[k]) # Label(hits[i])
    IN  /\ seed_at # <<>>
        /\ i \in DOMAIN hits
        /\ last_click' = "open_selected"
        /\ selected_key' = <<game_key(hits[idx])>>
        /\ det_call' = <<>>
        /\ pick_warned' = FALSE
        /\ shown_pick' = <<>>
        /\ GameOfTheDayPart(hits)
        /\ UNCHANGED <<df, clock, elapsed, picked_rows>>
        /\ UNCHANGED exceptPick

\* Rows of a dataset as ensure_columns leaves them: with a rom; without a rom
\* and with the same title, year and company; without a rom and with "|" in
\* the title or in the company.
SelRows ==
    <<[rom |-> <<"a">>, game |-> <<"a">>, year |-> 1980, company |-> <<"b">>],
      [rom |-> <<>>, game |-> <<"a">>, year |-> 1980, company |-> <<"b">>],
      [rom |-> <<>>, game |-> <<"a", "|", "1", "9", "8", "0">>, year |-> 1981,
       company |-> <<"b">>],
      [rom |-> <<>>, game |-> <<"a">>, year |-> 1980,
       company |-> <<"1", "9", "8", "1", "|", "b">>],
      [rom |-> <<>>, game |-> <<"a", "|", "b">>, year |-> 1980, company |-> <<>>]>>

\* The datasets: two or three different rows of SelRows, in any file order.
SelDatasets ==
    UNION {{[i \in 1..n |-> SelRows[p[i]]] :
               p \in {q \in [1..n -> 1..Len(SelRows)] : \A i, j \in 1..n : i # j => q[i] # q[j]}} :
           n \in 2..3}

InitSel ==
    /\ StoreInit
    /\ \E data \in SelDatasets : RestIdleAt(data, [y |-> 2023, m |-> 12, d |-> 30, h |-> 0])

NextSel ==
    \/ \E keep \in SUBSET (1..Len(df)) : script_run(keep)
    \/ clear_sel
    \/ pick_random
    \/ open_gotd
    \/ \E i \in 1..3 : open_selected(i)

SpecSel == InitSel /\ [][NextSel]_vars

(***************************************************************************)
(* appv1_4.py: artwork                                                     *)
(***************************************************************************)

\* ART_PATHS, in priority order
ART_PATHS == <<"Named_Marquees", "Named_Flyers", "Named_Titles", "Named_Snaps">>

\* f"{base}/{folder}/{rom}.png", as the folder and the rom
ArtUrl(folder, rom) == <<folder, rom>>

\* artwork_candidates_for_rom(rom)
artwork_candidates_for_rom(rom) ==
    IF rom = <<>> THEN <<>>
    ELSE [i \in 1..Len(ART_PATHS) |-> ArtUrl(ART_PATHS[i], LowerStr(Strip(rom)))]

\* The rows show_game_details is called with, by their rom cell.
ArtRows == [rom : RawRoms \cup {<<"a", "b">>}]

NoArtCaption == "No artwork found for this ROM in the Libretro MAME thumbnail set."
NoRomCaption == "Artwork requires a rom column (MAME short name) in your CSV."

\* show_game_details(row) up to the first st.image call; the thumbnail set
\* holds images for the rom in the folders exists.
show_game_details_art(row, exists) ==
    LET rom == LowerStr(normalize_str(row.rom))
    IN  /\ art_pc = "idle"
        /\ art_rom' = rom
        /\ art_exists' = exists
        /\ art_tried' = <<>>
        /\ art_shown' = <<>>
        /\ IF rom # <<>>
           THEN IF artwork_candidates_for_rom(rom) # <<>>
                THEN art_pc' = "loop" /\ art_i' = 1 /\ art_caption' = ""
                ELSE art_pc' = "idle" /\ art_i' = 0 /\ art_caption' = NoArtCaption
           ELSE art_pc' = "idle" /\ art_i' = 0 /\ art_caption' = NoRomCaption
        /\ UNCHANGED exceptArt

\* st.image(u) returns and the loop goes on to the next candidate.
st_image_returns_no_break ==
    LET candidates == artwork_candidates_for_rom(art_rom)
    IN  /\ art_pc = "loop"
        /\ art_tried' = Append(art_tried, candidates[art_i])
        /\ art_shown' = <<candidates[art_i]>>
        /\ IF art_i < Len(candidates)
           THEN art_i' = art_i + 1 /\ UNCHANGED art_pc
           ELSE art_i' = 0 /\ art_pc' = "idle"
        /\ UNCHANGED <<art_rom, art_exists, art_caption>>
        /\ UNCHANGED exceptArt

\* st.image(u) returns: shown = True; break
st_image_returns ==
    LET candidates == artwork_candidates_for_rom(art_rom)
    IN  /\ art_pc = "loop"
        /\ art_tried' = Append(art_tried, candidates[art_i])
        /\ art_shown' = <<candidates[art_i]>>
        /\ art_i' = 0
        /\ art_pc' = "idle"
        /\ UNCHANGED <<art_rom, art_exists, art_caption>>
        /\ UNCHANGED exceptArt

\* st.image(u) raises, which it cannot do for an image that exists: continue,
\* and after the last candidate the caption.
st_image_raises ==
    LET candidates == artwork_candidates_for_rom(art_rom)
    IN  /\ art_pc = "loop"
        /\ candidates[art_i][1] \notin art_exists
        /\ art_tried' = Append(art_tried, candidates[art_i])
        /\ IF art_i < Len(candidates)
           THEN art_i' = art_i + 1 /\ UNCHANGED <<art_pc, art_caption>>
           ELSE art_i' = 0 /\ art_pc' = "idle" /\ art_caption' = NoArtCaption
        /\ UNCHANGED <<art_rom, art_exists, art_shown>>
        /\ UNCHANGED exceptArt

NextArt ==
    \/ \E row \in ArtRows, exists \in SUBSET {ART_PATHS[i] : i \in DOMAIN ART_PATHS} :
          show_game_details_art(row, exists)
    \/ st_image_returns
    \/ st_image_raises

SpecArt == Init /\ [][NextArt]_vars

(***************************************************************************)
(* appv1_4.py: favorites                                                   *)
(***************************************************************************)

\* The keys of the games whose Favorite button the session can click.
FavKeys == {RomPrefix \o <<"a">>, RomPrefix \o <<"b">>}

\* The items a "favorites" list of an uploaded file can hold: JSON strings
\* and a JSON number.
FavItems ==
    {[t |-> "str", s |-> RomPrefix \o <<"a">>, n |-> 0],
     [t |-> "str", s |-> RomPrefix \o <<"b">>, n |-> 0],
     [t |-> "str", s |-> <<"7">>, n |-> 0],
     [t |-> "num", s |-> <<>>, n |-> 7]}

\* Longest "favorites" list of an uploaded file.
MaxFavs == 3

\* The uploaded files: bytes that json.loads rejects, a JSON value that is
\* not an object, an object without "favorites", an object whose "favorites"
\* is not a list, and an object whose "favorites" is a list.
Uploads ==
    {[kind |-> k, favs |-> <<>>] :
        k \in {"not_json", "not_object", "no_favorites", "favorites_not_list"}}
    \cup {[kind |-> "favorites_list", favs |-> l] :
            l \in UNION {[1..n -> FavItems] : n \in 0..MaxFavs}}

NoUpload == [kind |-> "", favs |-> <<>>]

\* str(x) of an item
PyStr(x) == IF x.t = "str" THEN x.s ELSE IntStr(x.n)

\* key in st.session_state.favorites
is_favorited(list, key) == \E i \in DOMAIN list : list[i] = key

\* list.remove(key): the first occurrence goes.
ListRemove(list, key) ==
    LET i == CHOOSE j \in DOMAIN list :
                 list[j] = key /\ \A k \in 1..(j - 1) : list[k] # key
    IN  SubSeq(list, 1, i - 1) \o SubSeq(list, i + 1, Len(list))

RECURSIVE DictFromKeys(_, _)
\* list(dict.fromkeys(list)): the first occurrence of each item, in order;
\* acc is the list built so far.
DictFromKeys(list, acc) ==
    IF list = <<>> THEN acc
    ELSE DictFromKeys(Tail(list),
                      IF is_favorited(acc, Head(list)) THEN acc ELSE Append(acc, Head(list)))

\* [str(x) for x in favs], without the de-duplication.
ImportedKeepsRepeats(favs) == [i \in DOMAIN favs |-> PyStr(favs[i])]

\* list(dict.fromkeys([str(x) for x in favs]))
Imported(favs) == DictFromKeys([i \in DOMAIN favs |-> PyStr(favs[i])], <<>>)

\* toggle_favorite(key), clicked on the Favorite button of a game
toggle_favorite(key) ==
    /\ favorites' = IF is_favorited(favorites, key)
                    THEN ListRemove(favorites, key)
                    ELSE Append(favorites, key)
    /\ fav_event' = [op |-> "toggle", key |-> key, upload |-> NoUpload, msg |-> ""]
    /\ UNCHANGED exceptFav

\* An import that empties favorites before it looks at the file.
import_favorites_clears_first(upload) ==
    /\ IF upload.kind \in {"not_json", "not_object"}
       THEN /\ favorites' = <<>>
            /\ fav_event' = [op |-> "import", key |-> <<>>, upload |-> upload,
                             msg |-> "Could not read that JSON file."]
       ELSE IF upload.kind = "favorites_not_list"
       THEN /\ favorites' = <<>>
            /\ fav_event' = [op |-> "import", key |-> <<>>, upload |-> upload,
                             msg |-> "Invalid favorites format."]
       ELSE /\ favorites' = Imported(upload.favs)
            /\ fav_event' = [op |-> "import", key |-> <<>>, upload |-> upload,
                             msg |-> "Favorites imported!"]
    /\ UNCHANGED exceptFav

\* "Import favorites JSON": the script run that reads the uploaded file.
import_favorites(upload) ==
    /\ IF upload.kind \in {"not_json", "not_object"}
       THEN \* json.loads raises, or data.get raises AttributeError
            /\ favorites' = favorites
            /\ fav_event' = [op |-> "import", key |-> <<>>, upload |-> upload,
                             msg |-> "Could not read that JSON file."]
       ELSE IF upload.kind = "favorites_not_list"
       THEN /\ favorites' = favorites
            /\ fav_event' = [op |-> "import", key |-> <<>>, upload |-> upload,
                             msg |-> "Invalid favorites format."]
       ELSE \* data.get("favorites", []) is a list
            /\ favorites' = Imported(upload.favs)
            /\ fav_event' = [op |-> "import", key |-> <<>>, upload |-> upload,
                             msg |-> "Favorites imported!"]
    /\ UNCHANGED exceptFav

\* "Clear Favorites"
clear_favorites ==
    /\ favorites' = <<>>
    /\ fav_event' = [op |-> "clear", key |-> <<>>, upload |-> NoUpload, msg |-> ""]
    /\ UNCHANGED exceptFav

NextFav ==
    \/ \E key \in FavKeys \cup {<<"7">>} : toggle_favorite(key)
    \/ \E upload \in Uploads : import_favorites(upload)
    \/ clear_favorites

SpecFav == Init /\ [][NextFav]_vars

(***************************************************************************)
(* app.py: extract_image_urls                                              *)
(*                                                                         *)
(* A string is written as the sequence of its lexemes: a scheme, a host, a *)
(* path, an extension, a query, a blank.                                   *)
(***************************************************************************)

\* The leaves of a response: strings, and a scalar that is not a string.
ImgLeaves ==
    {[t |-> "str", s |-> <<"http://", "x/a", ".png">>],
     [t |-> "str", s |-> <<" ", "http://", "x/a", ".png", " ">>],
     [t |-> "str", s |-> <<"https://", "adb.arcadeitalia.net/", "a", ".JPG">>],
     [t |-> "str", s |-> <<"http://", "adb.arcadeitalia.net/", "a", ".JPG">>],
     [t |-> "str", s |-> <<"https://", "x/b", ".webp", "?v=1">>],
     [t |-> "str", s |-> <<"http://", "x/a", ".gif">>],
     [t |-> "str", s |-> <<"x/a", ".png">>],
     [t |-> "num", s |-> <<>>]}

\* The responses: a tree of dicts (their values, in order) and lists around
\* three leaves a, b, c, which the document holds in that order.
ImgShapes == {"dict_of_list", "list_of_dict", "nested"}

TreeOf(shape, l) ==
    LET dict(kids) == [t |-> "dict", kids |-> kids]
        list(kids) == [t |-> "list", kids |-> kids]
    IN  CASE shape = "dict_of_list" -> dict(<<list(<<l[1], l[2]>>), l[3]>>)
          [] shape = "list_of_dict" -> list(<<l[1], dict(<<list(<<l[2]>>)>>), l[3]>>)
          [] shape = "nested" ->
                dict(<<dict(<<l[1]>>), list(<<>>), list(<<l[2], list(<<l[3]>>)>>)>>)

\* walk(x) on a string x: what it appends to urls
ImageUrlOf(x) ==
    LET s == Strip(x)
        \* s.startswith("https://adb.arcadeitalia.net/"): the scheme becomes http://
        s2 == IF Len(s) >= 2 /\ s[1] = "https://" /\ s[2] = "adb.arcadeitalia.net/"
              THEN <<"http://">> \o Tail(s) ELSE s
        IsExt(c) == c \in {".png", ".jpg", ".jpeg", ".webp", ".PNG", ".JPG", ".JPEG", ".WEBP"}
        IsQuery(c) == c \in {"?v=1"}
        \* re.search(r"\.(png|jpg|jpeg|webp)(\?.*)?$", s, re.IGNORECASE)
        matches == \E i \in DOMAIN s2 : IsExt(s2[i]) /\ (i = Len(s2) \/ IsQuery(s2[i + 1]))
    IN  IF s # <<>> /\ s[1] \in {"http://", "https://"} /\ matches THEN <<s2>> ELSE <<>>

RECURSIVE walk(_)
\* walk(x): the urls it appends, in order
walk(x) ==
    LET RECURSIVE Kids(_)
        Kids(kids) == IF kids = <<>> THEN <<>> ELSE walk(Head(kids)) \o Kids(Tail(kids))
    IN  IF x.t \in {"dict", "list"} THEN Kids(x.kids)
        ELSE IF x.t = "str" THEN ImageUrlOf(x.s)
        ELSE <<>>

RECURSIVE FirstOccurrences(_)

\* The loop over urls with the seen set left out.
KeepsRepeats(urls) == urls

\* for u in urls: if u not in seen: seen.add(u); out.append(u)
FirstOccurrences(urls) ==
    IF urls = <<>> THEN <<>>
    ELSE LET n == Len(urls)
             out == FirstOccurrences(SubSeq(urls, 1, n - 1))
         IN  IF \E j \in 1..(n - 1) : urls[j] = urls[n] THEN out ELSE Append(out, urls[n])

\* extract_image_urls(obj)
extract_image_urls(obj) == FirstOccurrences(walk(obj))

\* One call of extract_image_urls.
extract_image_urls_call(shape, leaves) ==
    /\ img_in' = <<[shape |-> shape, leaves |-> leaves]>>
    /\ img_out' = extract_image_urls(TreeOf(shape, leaves))
    /\ UNCHANGED <<sum_in, sum_out>>
    /\ UNCHANGED exceptTree

NextImg == \E shape \in ImgShapes, leaves \in [1..3 -> ImgLeaves] : extract_image_urls_call(shape, leaves)

SpecImg == Init /\ [][NextImg]_vars

(***************************************************************************)
(* app.py: parse_adb_summary                                               *)
(*                                                                         *)
(* A JSON value is [t, s, kids]: t is its type, s the characters of a      *)
(* string or of a number, kids the items [k, v] of a dict in order, or     *)
(* those of a list with k = "".                                            *)
(***************************************************************************)
JStr(s) == [t |-> "str", s |-> s, kids |-> <<>>]
JDict(items) == [t |-> "dict", s |-> <<>>, kids |-> items]
JList(items) == [t |-> "list", s |-> <<>>, kids |-> [i \in DOMAIN items |-> [k |-> "", v |-> items[i]]]]

\* The values a key of the response can have.
SumVals ==
    {JStr(<<"a">>), JStr(<<" ", "a", " ">>), JStr(<<>>), JStr(<<"c", ".", " ", "1", "9", "8", "0">>),
     [t |-> "none", s |-> <<>>, kids |-> <<>>], [t |-> "num", s |-> <<"0">>, kids |-> <<>>],
     JList(<<>>)}

\* The keys it can have them under.
SumKeys == {"title", "Title", " name ", "YEAR", "other"}

\* The responses: two items, side by side, the first inside a wrapper
\* object, or the first inside the list of one wrapper and the second inside
\* another wrapper.

SumTree(shape, k1, v1, k2, v2) ==
    LET first == [k |-> k1, v |-> v1]
        second == [k |-> k2, v |-> v2]
    IN  CASE shape = "flat" -> JDict(<<first, second>>)
          [] shape = "wrapped" -> JDict(<<[k |-> "result", v |-> JDict(<<first>>)], second>>)
          [] shape = "listed" ->
                JDict(<<[k |-> "data", v |-> JList(<<JDict(<<first>>)>>)],
                        [k |-> "mame", v |-> JDict(<<second>>)]>>)

\* str(k).strip().lower(), on the keys of the responses
KeyNorm(k) ==
    CASE k = "Title" -> "title" [] k = " name " -> "name" [] k = "YEAR" -> "year" [] OTHER -> k

RECURSIVE walk_kv(_)
\* _walk_kv(obj): the (k, v) it yields, in order
walk_kv(x) ==
    LET RECURSIVE Items(_)
        Items(kids) ==
            IF kids = <<>> THEN <<>>
            ELSE (IF x.t = "dict" THEN <<Head(kids)>> ELSE <<>>)
                     \o walk_kv(Head(kids).v) \o Items(Tail(kids))
    IN  IF x.t \in {"dict", "list"} THEN Items(x.kids) ELSE <<>>

\* _find_first_value that takes the first key that matches, whatever its value.
find_first_value_any(obj, key_candidates) ==
    LET found == SelectSeq(walk_kv(obj), LAMBDA e : KeyNorm(e.k) \in key_candidates)
    IN  IF found = <<>> THEN <<>> ELSE <<found[1].v>>

\* _find_first_value(obj, key_candidates): <<v>>, or <<>> for (None, None, None)
find_first_value(obj, key_candidates) ==
    LET \* v in (None, "", [], {})
        IsEmpty(v) == v.t = "none" \/ (v.t \in {"str", "dict", "list"} /\ v.s = <<>> /\ v.kids = <<>>)
        found == SelectSeq(walk_kv(obj), LAMBDA e : KeyNorm(e.k) \in key_candidates /\ ~IsEmpty(e.v))
    IN  IF found = <<>> THEN <<>> ELSE <<found[1].v>>

RECURSIVE JsonDumps(_)
\* json.dumps(v, ensure_ascii=False), without its blanks and commas
JsonDumps(v) ==
    LET RECURSIVE Items(_)
        Items(kids) ==
            IF kids = <<>> THEN <<>>
            ELSE (IF v.t = "dict" THEN <<"\"", Head(kids).k, "\"", ":">> ELSE <<>>)
                     \o JsonDumps(Head(kids).v) \o Items(Tail(kids))
    IN  CASE v.t = "dict" -> <<"{">> \o Items(v.kids) \o <<"}">>
          [] v.t = "list" -> <<"[">> \o Items(v.kids) \o <<"]">>
          [] v.t = "str" -> <<"\"">> \o v.s \o <<"\"">>
          [] v.t = "none" -> <<"null">>
          [] OTHER -> v.s

\* _coerce_text(v)
coerce_text(v) ==
    IF v.t = "none" THEN <<>>
    ELSE IF v.t \in {"dict", "list"} THEN JsonDumps(v)
    ELSE Strip(v.s)

\* field_map
field_map ==
    [title |-> {"title", "name", "game", "game_name", "nome", "titolo"},
     description |-> {"description", "desc", "note", "descrizione", "storia", "history"},
     manufacturer |-> {"manufacturer", "company", "maker", "produttore", "manufacturer_name"},
     year |-> {"year", "release_year", "anno", "data", "date"},
     genre |-> {"genre", "category", "genere", "tipo"},
     players |-> {"players", "player", "giocatori", "num_players"},
     buttons |-> {"buttons", "button", "pulsanti", "num_buttons"},
     controls |-> {"controls", "control", "input", "controlli", "controllo", "joystick"},
     rotation |-> {"rotation", "screen", "orientation", "orientamento", "monitor", "display"},
     status |-> {"status", "working", "emulation", "emulation_status", "stato"}]

\* re.search(r"(19\d{2}|20\d{2})", text): m.group(1), or text when m is None
YearIn(text) ==
    LET IsDigit(c) == c \in {Digit(d) : d \in 0..9}
        at == {i \in 1..(Len(text) - 3) :
                  /\ <<text[i], text[i + 1]>> \in {<<"1", "9">>, <<"2", "0">>}
                  /\ IsDigit(text[i + 2]) /\ IsDigit(text[i + 3])}
    IN  IF at = {} THEN text
        ELSE LET i == CHOOSE j \in at : \A h \in at : j <= h IN SubSeq(text, i, i + 3)

\* parse_adb_summary(data): summary
parse_adb_summary(data) ==
    LET Wrapped(wrap_key) ==
            LET found == SelectSeq(data.kids, LAMBDA e : e.k = wrap_key)
                w == found[Len(found)].v
            IN  IF found = <<>> THEN <<>>
                ELSE IF w.t = "dict" THEN <<w>>
                ELSE IF w.t = "list" /\ w.kids # <<>> /\ w.kids[1].v.t = "dict" THEN <<w.kids[1].v>>
                ELSE <<>>
        candidates == <<data>> \o Wrapped("result") \o Wrapped("data") \o Wrapped("game")
                          \o Wrapped("mame") \o Wrapped("response")
        Val(f) == LET hits_in == SelectSeq([i \in DOMAIN candidates |->
                                               find_first_value(candidates[i], field_map[f])],
                                           LAMBDA r : r # <<>>)
                  IN  IF hits_in = <<>> THEN <<>> ELSE hits_in[1]
        found == {f \in DOMAIN field_map : Val(f) # <<>>}
    IN  [f \in found |-> IF f = "year" THEN YearIn(coerce_text(Val(f)[1]))
                         ELSE coerce_text(Val(f)[1])]

\* show_adb_block has a response that is a JSON object.
adb_data_arrives(shape, k1, v1, k2, v2) ==
    /\ sum_in = <<>>
    /\ sum_in' = <<[shape |-> shape, data |-> SumTree(shape, k1, v1, k2, v2)]>>
    /\ UNCHANGED <<img_in, img_out, sum_out>>
    /\ UNCHANGED exceptTree

\* show_adb_block: summary, debug = parse_adb_summary(data)
parse_adb_summary_call ==
    /\ sum_in # <<>>
    /\ sum_out = <<>>
    /\ sum_out' = <<[summary |-> parse_adb_summary(sum_in[1].data), raised |-> FALSE]>>
    /\ UNCHANGED <<img_in, img_out, sum_in>>
    /\ UNCHANGED exceptTree

NextSum ==
    \/ \E shape \in {"flat", "wrapped", "listed"}, k1 \in SumKeys, v1 \in SumVals, k2 \in SumKeys, v2 \in SumVals :
          adb_data_arrives(shape, k1, v1, k2, v2)
    \/ parse_adb_summary_call

SpecSum == Init /\ [][NextSum]_vars

(***************************************************************************)
(* Claims                                                                  *)
(***************************************************************************)

\* C1: the table holds at most one row per normalized rom, every stored rom
\* is a normalized non-empty rom, and a row's status is the status of the
\* set_status committed last for that rom (no row when that was a clear).
C1_OneRowLatestStatus ==
    /\ \A r1, r2 \in game_status : StrNorm(r1.rom) = StrNorm(r2.rom) => r1 = r2
    /\ \A r \in game_status : r.rom \in RomKeys /\ r.status = last_set[r.rom].status
    /\ \A k \in RomKeys : last_set[k].status = None => RowsOf(game_status, k) = {}

\* C1 witness: a session's upsert of a new tag has executed on a table that
\* holds the rom with another tag; its transaction holds one row for the rom.
C1_Witness ==
    \E s \in Sessions :
        /\ pc[s] = "commit"
        /\ frame[s].new_status # None
        /\ \E r \in RowsOf(game_status, frame[s].rom) : r.status # frame[s].new_status
        /\ \E r \in txn[s][1] :
              /\ RowsOf(txn[s][1], frame[s].rom) = {r}
              /\ r.status = frame[s].new_status

\* C2: the commit of set_status(rom, None) leaves no row for rom in the
\* table, and when update_status(rom, None) completes, status_for_rom(rom)
\* is None in that session.
C2_ClearRemovesRow ==
    [][\A s \in Sessions :
         /\ (pc[s] = "commit" /\ pc'[s] = "cache" /\ frame[s].new_status = None)
               => RowsOf(game_status', frame[s].rom) = {}
         /\ (pc[s] = "cache" /\ pc'[s] = "idle" /\ frame[s].new_status = None)
               => status_for_rom(s, frame[s].rom)' = None]_vars

\* C2 witness: a clear has committed on a rom the session's cache still
\* holds a tag for, and the table has no row for it.
C2_Witness ==
    \E s \in Sessions :
        /\ pc[s] = "cache"
        /\ frame[s].new_status = None
        /\ frame[s].rom \in DOMAIN status_cache[s]
        /\ RowsOf(game_status, frame[s].rom) = {}

\* A set_status(rom, T) commits when the set_status committed last for rom
\* was set_status(rom, T) too.
RepeatedSet(s) ==
    /\ pc[s] = "commit"
    /\ pc'[s] = "cache"
    /\ last_set[frame[s].rom].status = frame[s].new_status

RomStatus(rows) == {[rom |-> r.rom, status |-> r.status] : r \in rows}

\* C3 as stated: the second of two equal set_status calls leaves the rows,
\* updated_at included, as the first left them.
C3_IdempotentWithTime ==
    [][\A s \in Sessions : RepeatedSet(s) => game_status' = game_status]_vars

\* C3 amended: the second of two equal set_status calls leaves the (rom,
\* status) pairs and the number of rows as they were and the rows of every
\* other rom untouched; the rom's updated_at becomes the time of the second
\* call.
C3_IdempotentUpToTime ==
    [][\A s \in Sessions :
         RepeatedSet(s) =>
            /\ RomStatus(game_status') = RomStatus(game_status)
            /\ Cardinality(game_status') = Cardinality(game_status)
            /\ \A r \in game_status : r.rom # frame[s].rom => r \in game_status'
            /\ \A r \in RowsOf(game_status', frame[s].rom) : r.updated_at = frame[s].at]_vars

\* C3 witness: the second set_status of the same tag has executed at a later
\* store time than the row it rewrites.
C3_Witness ==
    \E s \in Sessions :
        /\ pc[s] = "commit"
        /\ frame[s].new_status # None
        /\ last_set[frame[s].rom].status = frame[s].new_status
        /\ \E r \in RowsOf(game_status, frame[s].rom) : r.updated_at < frame[s].at

\* C4: when set_status raised, update_status has ended with that exception
\* and the session's status_cache is what it was when the call began.
C4_FailedWriteKeepsCache ==
    \A s \in Sessions :
        raised[s] => /\ pc[s] = "idle"
                     /\ txn[s] = <<>>
                     /\ status_cache[s] = cache_before[s]

\* C4 witness: an update_status call has raised in a session whose cache
\* holds a tag.
C4_Witness ==
    \E s \in Sessions :
        /\ raised[s]
        /\ pc[s] = "idle"
        /\ status_cache[s] # EmptyDict

\* C5: in a session alone on the store, once the cache is loaded and no
\* update_status call is running, status_cache equals get_all_statuses().
C5_WriteThrough ==
    (status_cache_loaded[Solo] /\ pc[Solo] = "idle")
        => status_cache[Solo] = get_all_statuses(game_status)

\* C5 witness: the loaded session has finished a set_status at a later store
\* time than the table it started on, the store holds one row and the other
\* rom has none.
C5_Witness ==
    /\ status_cache_loaded[Solo]
    /\ pc[Solo] = "idle"
    /\ Cardinality(game_status) = 1
    /\ \E r \in game_status : r.updated_at > 0 /\ status_cache[Solo][r.rom] = r.status

\* The row a write leaves for its rom, alone.
EffectOf(rom, status, at) ==
    IF status = None THEN {} ELSE {[rom |-> rom, status |-> status, updated_at |-> at]}

\* C6: the rows of each rom are the effect of the write committed last for
\* it, status and store time together; a commit writes its own effect for
\* its rom and leaves the rows of every other rom as they were.
C6_LastWriterWins ==
    /\ [](\A k \in RomKeys :
            RowsOf(game_status, k) = EffectOf(k, last_set[k].status, last_set[k].at))
    /\ [][\A s \in Sessions :
            (pc[s] = "commit" /\ pc'[s] = "cache") =>
               /\ RowsOf(game_status', frame[s].rom)
                     = EffectOf(frame[s].rom, frame[s].new_status, frame[s].at)
               /\ \A k \in RomKeys \ {frame[s].rom} :
                     RowsOf(game_status', k) = RowsOf(game_status, k)]_vars

\* C6 witness: two sessions have each committed a different write to the
\* same rom, the tag written at a later store time than the row's, and
\* neither update_status has finished.
C6_Witness ==
    \E s, t \in Sessions :
        /\ s # t
        /\ pc[s] = "cache" /\ pc[t] = "cache"
        /\ frame[s].rom = frame[t].rom
        /\ frame[s].new_status # frame[t].new_status
        /\ frame[s].new_status # None /\ frame[t].new_status # None
        /\ frame[s].at < frame[t].at
        /\ RowsOf(game_status, frame[s].rom)
              = EffectOf(frame[t].rom, frame[t].new_status, frame[t].at)

\* C7 as stated: when a session's update_status(rom, x) completes and its
\* write is still the one committed last for rom, status_for_rom(rom) is x
\* in every other session that has loaded its cache.
C7_GlobalAcrossSessions ==
    [][\A s \in Sessions :
         (/\ pc[s] = "cache"
          /\ pc'[s] = "idle"
          /\ last_set[frame[s].rom].status = frame[s].new_status)
            => \A t \in Sessions \ {s} :
                  status_cache_loaded[t] =>
                     status_for_rom(t, frame[s].rom)' = frame[s].new_status]_vars

\* A step that is a show_adb_block call for a non-empty rom: its inputs are
\* adb_frame'.
AdbCall == adb_pc = "idle" /\ adb_autoload_global' = adb_autoload_global /\ adb_frame' # <<>>

\* C8: a show_adb_block call without Refresh for a rom whose cache entry has
\* no _error sends no request, changes no cache entry and gets that entry.
C8_CachedCallNoRequest ==
    [][(/\ AdbCall
        /\ ~adb_frame'[1].refresh_btn
        /\ adb_frame'[1].rom \in DOMAIN adb_cache
        /\ ~HasError(adb_cache[adb_frame'[1].rom]))
          => /\ requests' = requests
             /\ adb_pc' = "idle"
             /\ adb_cache' = adb_cache
             /\ adb_data' = <<adb_cache[adb_frame'[1].rom]>>]_vars

\* C8 witness: a Load click has been answered from the cache, without a
\* request.
C8_Witness ==
    /\ adb_pc = "idle"
    /\ adb_frame # <<>>
    /\ adb_frame[1].load_btn
    /\ ~adb_frame[1].sent
    /\ adb_frame[1].rom \in DOMAIN adb_cache
    /\ ~HasError(adb_cache[adb_frame[1].rom])
    /\ adb_data = <<adb_cache[adb_frame[1].rom]>>

\* C9: a show_adb_block call with Refresh sends exactly one request, and
\* when fetch_adb_details ends, the cache entry of the rom is the outcome of
\* that request: the parsed body, or the error descriptor of its failure.
C9_RefreshAlwaysRequests ==
    /\ [][(AdbCall /\ adb_frame'[1].refresh_btn)
             => requests' = requests + 1 /\ adb_pc' = "fetching"]_vars
    /\ [][(adb_pc = "fetching" /\ adb_frame[1].refresh_btn)
             => requests' = requests /\ adb_pc' = "responded"]_vars
    /\ [][(adb_pc = "responded" /\ adb_frame[1].refresh_btn)
             => /\ requests' = requests
                /\ adb_pc' = "idle"
                /\ adb_frame[1].rom \in DOMAIN adb_cache'
                /\ adb_cache'[adb_frame[1].rom] =
                      IF adb_response[1].kind = "dict" THEN adb_response[1].value
                      ELSE IF adb_response[1].kind = "other"
                           THEN ("_data" :> adb_response[1].value)
                           ELSE adb_data'[1]
                /\ adb_response[1].kind = "raise" =>
                      /\ HasError(adb_data'[1])
                      /\ adb_data'[1]["_rom"] = adb_frame[1].rom]_vars

\* C9 witness: a Refresh of a cached payload has ended with another payload
\* in the cache, after one request.
C9_Witness ==
    /\ adb_pc = "idle"
    /\ adb_frame # <<>>
    /\ adb_frame[1].refresh_btn
    /\ adb_frame[1].sent
    /\ adb_frame[1].stale # <<>>
    /\ ~HasError(adb_cache[adb_frame[1].rom])
    /\ adb_cache[adb_frame[1].rom] # adb_frame[1].stale[1]

\* C10: while a request is in flight the cache has no entry for its rom,
\* and when the request of a Refresh failed, the cache entry of the rom is
\* an error descriptor carrying the failure, not the entry removed.
C10_RefreshDropsStale ==
    /\ [](adb_pc # "idle" => adb_frame[1].rom \notin DOMAIN adb_cache)
    /\ [][(/\ adb_pc = "responded"
           /\ adb_frame[1].refresh_btn
           /\ adb_response[1].kind = "raise")
             => /\ adb_frame[1].rom \in DOMAIN adb_cache'
                /\ HasError(adb_cache'[adb_frame[1].rom])
                /\ adb_cache'[adb_frame[1].rom]["_detail"] =
                      IF adb_response[1].value = "" THEN "Unknown error"
                      ELSE adb_response[1].value
                /\ (adb_frame[1].stale # <<>> /\ ~HasError(adb_frame[1].stale[1])) =>
                      adb_cache'[adb_frame[1].rom] # adb_frame[1].stale[1]]_vars

\* C10 witness: a Refresh that removed a payload has failed; the cache holds
\* the error descriptor for the rom.
C10_Witness ==
    /\ adb_pc = "idle"
    /\ adb_frame # <<>>
    /\ adb_frame[1].refresh_btn
    /\ adb_frame[1].stale # <<>>
    /\ ~HasError(adb_frame[1].stale[1])
    /\ HasError(adb_cache[adb_frame[1].rom])
    /\ adb_data = <<adb_cache[adb_frame[1].rom]>>

\* The request of the running fetch_adb_details timed out while the same
\* query over https:// would have been answered with a JSON object.
TimedOutHttpsValid ==
    /\ adb_pc = "responded"
    /\ adb_response[1] = [kind |-> "raise", value |-> "timed out"]
    /\ adb_https # <<>>
    /\ adb_https[1].kind = "dict"

\* C11: when the request to the primary transport variant timed out and the
\* secondary variant would return a valid body, the fetch returns that parsed
\* payload, not an error descriptor, and the cache stores it.
C11_FallbackToSecondVariant ==
    [][TimedOutHttpsValid
          => /\ adb_data' = <<adb_https[1].value>>
             /\ adb_frame[1].rom \in DOMAIN adb_cache'
             /\ adb_cache'[adb_frame[1].rom] = adb_https[1].value]_vars

\* C12: fetch_adb_details does not raise. Whatever the request did, the call
\* returns a dict: the parsed object, the parsed value under "_data", or an
\* error descriptor with the failure text (or "Unknown error" when the
\* exception has no text) as _detail and the page URL as _fallback_page.
C12_FetchNeverRaises ==
    [][adb_pc = "responded"
          => /\ adb_pc' = "idle"
             /\ adb_data' # <<>>
             /\ adb_response[1].kind = "dict" => adb_data'[1] = adb_response[1].value
             /\ adb_response[1].kind = "other" =>
                   /\ DOMAIN adb_data'[1] = {"_data"}
                   /\ adb_data'[1]["_data"] = adb_response[1].value
             /\ adb_response[1].kind = "raise" =>
                   /\ DOMAIN adb_data'[1] = {"_error", "_detail", "_rom", "_fallback_page"}
                   /\ adb_data'[1]["_error"] # ""
                   /\ adb_data'[1]["_detail"] =
                         IF adb_response[1].value = "" THEN "Unknown error"
                         ELSE adb_response[1].value
                   /\ adb_data'[1]["_fallback_page"] =
                         <<"http://adb.arcadeitalia.net/?mame=", adb_frame[1].rom>>]_vars

\* C12 witness: a fetch whose request raised has returned the descriptor
\* with the failure text and the fallback page.
C12_Witness ==
    /\ adb_pc = "idle"
    /\ adb_frame # <<>>
    /\ adb_frame[1].sent
    /\ adb_data # <<>>
    /\ "_fallback_page" \in DOMAIN adb_data[1]
    /\ adb_data[1]["_detail"] = "Unknown error"
    /\ adb_data[1]["_fallback_page"][2] = adb_frame[1].rom

\* C13: a fetch_adb_details call with a rom that is None, empty or only
\* whitespace returns an error descriptor at once: no request is sent or left
\* in flight and the cache stays as it was, whatever it holds.
C13_NoRomNoRequest ==
    [][(adb_pc = "idle" /\ adb_arg' # <<>>)
          => /\ NormRom(adb_arg'[1]) = <<>>
             /\ adb_data' # <<>>
             /\ DOMAIN adb_data'[1] = {"_error"}
             /\ adb_data'[1]["_error"] # ""
             /\ requests' = requests
             /\ adb_pc' = "idle"
             /\ adb_cache' = adb_cache]_vars

\* C13 witness: fetch_adb_details(None) has returned its error descriptor
\* with a payload in the cache and no request sent by it.
C13_Witness ==
    /\ adb_arg = <<NoneRom>>
    /\ adb_data = <<NoRomError>>
    /\ adb_cache # EmptyDict
    /\ requests = 1
    /\ adb_pc = "idle"

\* C14: the deterministic pick over a non-empty candidate sequence is the
\* record at index (seed mod length), counted from zero, for the seeds of the
\* day in both versions and for negative, zero and large seeds; over an empty
\* sequence it is None.
C14_PickIsPositionLookup ==
    /\ gotd_v14 = IF hits = <<>> THEN <<>> ELSE <<hits[(seed_int % Len(hits)) + 1]>>
    /\ gotd = IF hits = <<>> THEN <<>> ELSE <<hits[(seed % Len(hits)) + 1]>>
    /\ det_call # <<>> =>
          LET c == det_call[1]
          IN  /\ ~c.raised
              /\ c.out = IF c.df_in = <<>> THEN <<>>
                         ELSE <<c.df_in[(c.seed_int % Len(c.df_in)) + 1]>>
              /\ (c.seed_int = -7 /\ Len(c.df_in) = 3) => c.out = <<c.df_in[3]>>
              /\ (c.seed_int = -1 /\ Len(c.df_in) = 2) => c.out = <<c.df_in[2]>>
              /\ (c.seed_int = 20240101 /\ Len(c.df_in) = 3) => c.out = <<c.df_in[2]>>

\* C14 witness: deterministic_pick over three candidates with seed -7 has
\* returned the record at index 2, and the day's pick is the record at index 1.
C14_Witness ==
    /\ det_call # <<>>
    /\ det_call[1].seed_int = -7
    /\ Len(det_call[1].df_in) = 3
    /\ det_call[1].out = <<det_call[1].df_in[3]>>
    /\ Len(hits) = 3
    /\ seed_int = 20231230
    /\ gotd_v14 = <<hits[2]>>

\* C15: with no candidates, a script run, a Random click, a 10 Picks click
\* and a deterministic_pick call raise nothing and pick nothing: no Game of
\* the Day, the warning after a click, picked_rows and selected_key as they
\* were.
C15_EmptySetSafe ==
    [][/\ (/\ hits' = <<>>
           /\ seed_at' # <<>>
           /\ last_click' \in {"", "pick_random", "pick_10", "pick_random_v14"})
          => /\ ~pick_raised'
             /\ gotd' = <<>>
             /\ gotd_v14' = <<>>
             /\ shown_pick' = <<>>
             /\ picked_rows' = picked_rows
             /\ selected_key' = selected_key
             /\ last_click' # "" => pick_warned'
       /\ (det_call' # <<>> /\ det_call'[1].df_in = <<>>)
          => (~det_call'[1].raised /\ det_call'[1].out = <<>>)]_vars

\* C15 witness: after picks were made the filters left no candidates and
\* 10 Picks was clicked: the warning is shown, the earlier picks are kept.
C15_Witness ==
    /\ hits = <<>>
    /\ last_click = "pick_10"
    /\ pick_warned
    /\ ~pick_raised
    /\ gotd = <<>>
    /\ gotd_v14 = <<>>
    /\ Len(picked_rows) = 3
    /\ selected_key # <<>>

\* Calendar order of two local times, by date.
DateBefore(a, b) ==
    \/ a.y < b.y
    \/ a.y = b.y /\ a.m < b.m
    \/ a.y = b.y /\ a.m = b.m /\ a.d < b.d

SameDate(a, b) == a.y = b.y /\ a.m = b.m /\ a.d = b.d

\* C16: the seeds of two script runs are equal when the runs fall on the same
\* day and strictly greater in the later run when a day boundary lies between
\* them, for int(YYYYMMDD) and for YYYY * 1000 + day of year; no seed is
\* smaller than the one before.
C16_SeedMonotone ==
    [][(seed_at # <<>> /\ seed_at' # <<>>)
          => /\ SameDate(seed_at[1], seed_at'[1]) => (seed' = seed /\ seed_int' = seed_int)
             /\ DateBefore(seed_at[1], seed_at'[1]) => (seed' > seed /\ seed_int' > seed_int)
             /\ seed' >= seed
             /\ seed_int' >= seed_int]_vars

\* C16 witness: a run on the first of January after a session that began in
\* December has the seeds 20240101 and 2024001.
C16_Witness ==
    /\ seed_at # <<>>
    /\ seed_at[1].y = 2024
    /\ seed_at[1].m = 1
    /\ seed_at[1].d = 1
    /\ elapsed >= 2
    /\ seed_int = 20240101
    /\ seed = 2024001

\* C17: over the same ordering of more than one candidate, the picks for a
\* seed d and for d + 1 are at different positions and are different records
\* whenever d mod N and (d + 1) mod N differ; with five candidates the seed
\* 20240101 picks index 1 and 20240102 picks index 2.
C17_ConsecutiveSeedsDiffer ==
    /\ [][(/\ seed_at # <<>>
           /\ hits' = hits
           /\ Len(hits) > 1)
             => /\ (/\ seed_int' = seed_int + 1
                    /\ seed_int % Len(hits) # (seed_int + 1) % Len(hits))
                   => /\ gotd_v14' # gotd_v14
                      /\ \A i, j \in 1..Len(hits) :
                            (gotd_v14 = <<hits[i]>> /\ gotd_v14' = <<hits[j]>>) => i # j
                /\ (/\ seed' = seed + 1
                    /\ seed % Len(hits) # (seed + 1) % Len(hits))
                   => gotd' # gotd]_vars
    /\ []((Len(hits) = 5 /\ seed_int = 20240101) => gotd_v14 = <<hits[2]>>)
    /\ []((Len(hits) = 5 /\ seed_int = 20240102) =>
              (gotd_v14 = <<hits[3]>> /\ hits[3] # hits[2]))

\* C17 witness: on 2024-01-02 the pick over five candidates is the record at
\* index 2.
C17_Witness ==
    /\ Len(hits) = 5
    /\ seed_int = 20240102
    /\ gotd_v14 = <<hits[3]>>
    /\ gotd_v14 # <<hits[2]>>

\* The rom of a row, trimmed and lowercased.
KeyRom(row) == IF row.rom = NoneRom THEN <<>> ELSE LowerStr(Strip(row.rom))

\* C18: for a row whose trimmed rom is not empty, game_key is "rom:" followed
\* by the trimmed, lowercased rom, never a "meta:" key, whatever title, year
\* and company are; rows whose roms differ only in letter case or surrounding
\* whitespace get the same key.
C18_RomKeyWins ==
    /\ \A i \in DOMAIN key_calls :
          KeyRom(key_calls[i].row) # <<>> =>
              /\ key_calls[i].key = <<"r", "o", "m", ":">> \o KeyRom(key_calls[i].row)
              /\ SubSeq(key_calls[i].key, 1, 5) # <<"m", "e", "t", "a", ":">>
    /\ \A i, j \in DOMAIN key_calls :
          (/\ KeyRom(key_calls[i].row) # <<>>
           /\ KeyRom(key_calls[i].row) = KeyRom(key_calls[j].row))
             => key_calls[i].key = key_calls[j].key

\* C18 witness: two rows whose roms differ in case and whitespace and whose
\* title, year and company all differ have got the same key.
C18_Witness ==
    /\ Len(key_calls) = 2
    /\ key_calls[1].row.rom = <<" ", "A">>
    /\ key_calls[2].row.rom = <<"a">>
    /\ key_calls[1].row.game # key_calls[2].row.game
    /\ key_calls[1].row.year # key_calls[2].row.year
    /\ key_calls[1].row.company # key_calls[2].row.company
    /\ key_calls[1].key = key_calls[2].key

\* Both calls were for rows without a rom.
BothComposite ==
    /\ Len(key_calls) = 2
    /\ KeyRom(key_calls[1].row) = <<>>
    /\ KeyRom(key_calls[2].row) = <<>>

\* C19: two rows with an empty rom get different keys if their titles, their
\* years or their companies differ, whatever strings these are.
C19_CompositeInjective ==
    (/\ BothComposite
     /\ \/ key_calls[1].row.game # key_calls[2].row.game
        \/ key_calls[1].row.year # key_calls[2].row.year
        \/ key_calls[1].row.company # key_calls[2].row.company)
       => key_calls[1].key # key_calls[2].key

HasBar(s) == \E i \in DOMAIN s : s[i] = "|"

\* C19, amended: two rows with an empty rom whose trimmed titles and trimmed
\* companies hold no "|" get different keys if the trimmed titles, the years
\* or the trimmed companies differ.
C19_InjectiveWithoutBar ==
    (/\ BothComposite
     /\ \A i \in 1..2 : /\ ~HasBar(Strip(key_calls[i].row.game))
                        /\ ~HasBar(Strip(key_calls[i].row.company))
     /\ \/ Strip(key_calls[1].row.game) # Strip(key_calls[2].row.game)
        \/ key_calls[1].row.year # key_calls[2].row.year
        \/ Strip(key_calls[1].row.company) # Strip(key_calls[2].row.company))
       => key_calls[1].key # key_calls[2].key

\* C19 witness: two rows without rom and without "|" that differ in the
\* company only have got different keys.
C19_Witness ==
    /\ BothComposite
    /\ key_calls[1].row.game = <<"a">>
    /\ key_calls[2].row.game = <<"a">>
    /\ key_calls[1].row.year = key_calls[2].row.year
    /\ key_calls[1].row.company = <<>>
    /\ key_calls[2].row.company = <<"b">>
    /\ key_calls[1].key # key_calls[2].key

\* C20: st.image is called with the marquee, the flyer, the title screen and
\* the snap of the rom in this order; the first candidate it accepts is the
\* image shown and no candidate is tried after it, so when the marquee and
\* the flyer both exist the marquee is shown; when it accepts none, the
\* no-artwork caption is shown and no image.
C20_ArtworkPriority ==
    /\ [](/\ Len(art_tried) <= 4
          /\ \A i \in DOMAIN art_tried :
                art_tried[i] = <<<<"Named_Marquees", "Named_Flyers", "Named_Titles",
                                   "Named_Snaps">>[i], art_rom>>
          /\ art_shown # <<>> => art_shown[1] = art_tried[Len(art_tried)]
          /\ (art_pc = "idle" /\ art_rom # <<>>) =>
                /\ {"Named_Marquees", "Named_Flyers"} \subseteq art_exists =>
                      (art_shown = <<<<"Named_Marquees", art_rom>>>> /\ Len(art_tried) = 1)
                /\ art_shown = <<>> =>
                      (/\ Len(art_tried) = 4
                       /\ art_caption =
                             "No artwork found for this ROM in the Libretro MAME thumbnail set.")
                /\ art_shown # <<>> => art_caption = "")
    /\ [][(art_shown # <<>> /\ art_pc' # "idle") => art_pc = "idle"]_vars
    /\ [][art_tried' # art_tried =>
             (art_tried' = <<>> \/ (art_shown = <<>> /\ art_tried' = Append(art_tried, art_tried'[Len(art_tried')])))]_vars

\* C20 witness: the marquee and the flyer of the rom exist, and the marquee
\* is shown after one st.image call.
C20_Witness ==
    /\ art_pc = "idle"
    /\ art_rom = <<"a">>
    /\ {"Named_Marquees", "Named_Flyers"} \subseteq art_exists
    /\ art_tried = <<<<"Named_Marquees", <<"a">>>>>>
    /\ art_shown = <<<<"Named_Marquees", <<"a">>>>>>

C22_StatusRoundTrip ==
    [][\A s \in Sessions :
          (pc[s] = "commit" /\ pc'[s] = "cache") =>
            /\ (game_status = {} /\ frame[s].new_status # None) =>
                  get_all_statuses(game_status') = (frame[s].rom :> frame[s].new_status)
            /\ (/\ frame[s].new_status = None
                /\ \E T \in Statuses : get_all_statuses(game_status) = (frame[s].rom :> T)) =>
                  get_all_statuses(game_status') = EmptyDict]_vars

\* C22 witness: the store that began empty is empty again after the commit
\* of set_status(k, None), in a session whose cache still holds the status
\* that an earlier set_status(k, T) gave k.
C22_Witness ==
    /\ pc["s1"] = "cache"
    /\ frame["s1"].new_status = None
    /\ frame["s1"].rom = <<"a">>
    /\ status_cache["s1"] = (<<"a">> :> "played")
    /\ last_set[<<"a">>] = NeverSet
    /\ game_status = {}

\* C24: when a fetch_adb_details call for a non-empty rom has returned,
\* adb_cache[rom] is the value it returned; and an entry of adb_cache is
\* removed or replaced only by a render of the block of its rom with the
\* Refresh button clicked.
C24_CacheLifecycle ==
    /\ []((adb_pc = "idle" /\ adb_frame # <<>> /\ adb_data # <<>>) =>
            (/\ adb_frame[1].rom \in DOMAIN adb_cache
             /\ adb_cache[adb_frame[1].rom] = adb_data[1]))
    /\ [][\A k \in DOMAIN adb_cache :
            (k \notin DOMAIN adb_cache' \/ adb_cache'[k] # adb_cache[k]) =>
                (/\ adb_pc = "idle"
                 /\ adb_frame' # <<>>
                 /\ adb_frame'[1].rom = k
                 /\ adb_frame'[1].refresh_btn)]_vars

\* C24 witness: a Refresh of a cached rom has ended; the call returned the
\* entry the cache now holds, which differs from the entry Refresh removed.
C24_Witness ==
    /\ adb_pc = "idle"
    /\ adb_frame # <<>>
    /\ adb_frame[1].refresh_btn
    /\ adb_frame[1].stale # <<>>
    /\ adb_data = <<adb_cache[adb_frame[1].rom]>>
    /\ adb_cache[adb_frame[1].rom] # adb_frame[1].stale[1]

\* C26: a render of the ADB block with auto-load on, for a rom whose cache
\* entry is an error descriptor, issues a new network request.
C26_AutoloadRetriesFailure ==
    [][(/\ AdbCall
        /\ adb_frame'[1].auto_val
        /\ adb_frame'[1].rom \in DOMAIN adb_cache
        /\ HasError(adb_cache[adb_frame'[1].rom]))
          => (requests' = requests + 1 /\ adb_pc' = "fetching")]_vars

\* C29: an update_status or set_status call for a rom that is None, empty or
\* blank returns without error and leaves game_status and status_cache as
\* they were, and status_for_rom returns None for such a rom in every state.
C29_NoRomNoStatusChange ==
    /\ [](\A s \in Sessions, rom \in EmptyRoms : status_for_rom(s, rom) = None)
    /\ [][no_rom_call' # no_rom_call =>
            (/\ game_status' = game_status
             /\ txn' = txn
             /\ status_cache' = status_cache
             /\ \A s \in Sessions : ~raised'[s] /\ pc'[s] = "idle")]_vars

\* C29 witness: update_status(" ", "played") has returned in a session whose
\* cache and store hold a status for another rom.
C29_Witness ==
    /\ no_rom_call = <<[fn |-> "update_status", rom |-> <<" ">>, new_status |-> "played"]>>
    /\ Cardinality(game_status) = 1
    /\ status_cache[Solo] = get_all_statuses(game_status)
    /\ status_for_rom(Solo, <<" ">>) = None

\* C28: no key occurs twice in favorites, whatever toggles, imports and
\* clears have run; so one toggle_favorite(k) of a favorited k leaves
\* is_favorited(k) false.
C28_FavoritesNoDuplicates ==
    /\ [](\A i, j \in DOMAIN favorites : i # j => favorites[i] # favorites[j])
    /\ [][(/\ fav_event'.op = "toggle"
            /\ favorites' # favorites
            /\ is_favorited(favorites, fav_event'.key))
              => ~is_favorited(favorites', fav_event'.key)]_vars

\* C28 witness: an import of a list of three items that names one key as
\* the string "7" and as the number 7 has left the key once.
C28_Witness ==
    /\ fav_event.op = "import"
    /\ Len(fav_event.upload.favs) = 3
    /\ \E i \in 1..3 : fav_event.upload.favs[i].t = "num"
    /\ favorites = <<<<"7">>>>

\* An import of a file that is not JSON, not a JSON object, or whose
\* "favorites" is not a list leaves favorites as it was and reports an error.
RejectedImportKeeps ==
    fav_event'.upload.kind \in {"not_json", "not_object", "favorites_not_list"} =>
        (/\ favorites' = favorites
         /\ fav_event'.msg \in {"Could not read that JSON file.", "Invalid favorites format."})

\* C30 as stated: a rejected import leaves favorites as it was and reports
\* an error, and an import changes favorites only when the file's
\* "favorites" value is a list.
C30_RejectedImportChangesNothing ==
    [][(fav_event'.op = "import" /\ fav_event' # fav_event) =>
         /\ RejectedImportKeeps
         /\ favorites' # favorites => fav_event'.upload.kind = "favorites_list"]_vars

\* C30 amended: a rejected import leaves favorites as it was and reports an
\* error; an import changes favorites only when the file's "favorites" value
\* is a list or the file is an object with no "favorites" key, which empties
\* favorites; and an accepted list leaves its items, as strings.
C30_ListOrMissingKeyReplaces ==
    [][(fav_event'.op = "import" /\ fav_event' # fav_event) =>
         /\ RejectedImportKeeps
         /\ favorites' # favorites =>
               fav_event'.upload.kind \in {"favorites_list", "no_favorites"}
         /\ fav_event'.upload.kind = "no_favorites" =>
               (favorites' = <<>> /\ fav_event'.msg = "Favorites imported!")
         /\ fav_event'.upload.kind = "favorites_list" =>
               (/\ {favorites'[i] : i \in DOMAIN favorites'}
                     = {PyStr(fav_event'.upload.favs[i]) : i \in DOMAIN fav_event'.upload.favs}
                /\ fav_event'.msg = "Favorites imported!")]_vars

\* C30 witness: an import whose "favorites" is not a list has been rejected
\* with two favorites in the list.
C30_Witness ==
    /\ fav_event.op = "import"
    /\ fav_event.upload.kind = "favorites_not_list"
    /\ fav_event.msg = "Invalid favorites format."
    /\ Len(favorites) = 2

\* The details panel has resolved selected_key to a row with that key.
ResolvesBack ==
    LET panel == DetailsPanel(df, selected_key[1])
    IN  panel.kind = "shown" /\ game_key(panel.row[1]) = selected_key[1]

\* C27 as stated: whenever selected_key is the game_key of a record of the
\* dataset, the details panel shows a record with that key.
C27_KeysResolveBack ==
    (selected_key # <<>> /\ \E i \in DOMAIN df : game_key(df[i]) = selected_key[1])
        => ResolvesBack

\* A record that carries a rom, or whose title has no "|" and whose title,
\* year and company are those of no earlier record that carries a rom.
PlainKeyed(data, i) ==
    \/ data[i].rom # <<>>
    \/ /\ FindSub(data[i].game, <<"|">>) = 0
       /\ \A j \in 1..(i - 1) :
             (/\ data[j].game = data[i].game
              /\ data[j].year = data[i].year
              /\ data[j].company = data[i].company)
                => data[j].rom = <<>>

\* C27 amended: whenever selected_key is the game_key of a record of the
\* dataset that carries a rom, or whose title has no "|" and whose title,
\* year and company are those of no earlier record that carries a rom, the
\* details panel shows a record with that key.
C27_PlainKeysResolveBack ==
    (/\ selected_key # <<>>
     /\ \E i \in DOMAIN df : game_key(df[i]) = selected_key[1] /\ PlainKeyed(df, i))
        => ResolvesBack

\* C27 witness: the selected key is the composite key of a record whose
\* company holds a "|"; the panel shows that record.
C27_Witness ==
    /\ selected_key = <<game_key(SelRows[4])>>
    /\ last_click = "open_selected"
    /\ DetailsPanel(df, selected_key[1]) = [kind |-> "shown", row |-> <<SelRows[4]>>]

\* The string leaves of the last response, in document order.
StringLeaves == SelectSeq(img_in[1].leaves, LAMBDA l : l.t = "str")

\* A string that begins with http:// or https:// and ends in an image
\* extension, in either case of the letters.
IsImageUrl(s) ==
    /\ s # <<>>
    /\ s[1] \in {"http://", "https://"}
    /\ s[Len(s)] \in {".png", ".jpg", ".jpeg", ".webp", ".PNG", ".JPG", ".JPEG", ".WEBP"}

\* No string twice in list, and the strings in the order in which from first
\* holds them.
OnceInOrderOf(list, from) ==
    /\ \A i, j \in DOMAIN list : i # j => list[i] # list[j]
    /\ \A i, j \in DOMAIN list :
          i < j => \E k \in DOMAIN from :
                      from[k] = list[i] /\ \A h \in 1..k : from[h] # list[j]

\* C23 as stated: the list returned holds the string leaves of the tree that
\* are http(s) URLs ending in an image extension, each once, in the order of
\* their first appearance.
C23_ImageLeavesInOrder ==
    img_in # <<>> =>
        LET urls == SelectSeq([i \in DOMAIN StringLeaves |-> StringLeaves[i].s], IsImageUrl)
        IN  /\ {img_out[i] : i \in DOMAIN img_out} = {urls[i] : i \in DOMAIN urls}
            /\ OnceInOrderOf(img_out, urls)

\* C23 amended: the list returned holds what the string leaves that begin,
\* once trimmed, with http:// or https:// and end in an image extension or in
\* one followed by a query become when they are trimmed and an
\* https://adb.arcadeitalia.net/ prefix is rewritten to http://; each such
\* string once, in the order of its first appearance.
C23_TrimmedRewrittenInOrder ==
    img_in # <<>> =>
        LET IsTaken(l) == ImageUrlOf(l.s) # <<>>
            taken == SelectSeq(StringLeaves, IsTaken)
            urls == [i \in DOMAIN taken |-> ImageUrlOf(taken[i].s)[1]]
        IN  /\ {img_out[i] : i \in DOMAIN img_out} = {urls[i] : i \in DOMAIN urls}
            /\ OnceInOrderOf(img_out, urls)

\* C23 witness: the tree holds the http:// form of an ADB image, a padded
\* copy of another image and the https:// form of the first; the list holds
\* the first and the trimmed second, once each.
C23_Witness ==
    /\ img_in # <<>>
    /\ img_in[1].shape = "nested"
    /\ img_in[1].leaves[1].s = <<"http://", "adb.arcadeitalia.net/", "a", ".JPG">>
    /\ img_in[1].leaves[2].s = <<" ", "http://", "x/a", ".png", " ">>
    /\ img_in[1].leaves[3].s = <<"https://", "adb.arcadeitalia.net/", "a", ".JPG">>
    /\ img_out = <<<<"http://", "adb.arcadeitalia.net/", "a", ".JPG">>,
                   <<"http://", "x/a", ".png">>>>

\* The (key, value) items of the last response in depth-first document
\* order: an item before the items inside its value.
DocItems ==
    LET data == sum_in[1].data
    IN  CASE sum_in[1].shape = "flat" -> data.kids
          [] sum_in[1].shape = "wrapped" ->
                <<data.kids[1], data.kids[1].v.kids[1], data.kids[2]>>
          [] sum_in[1].shape = "listed" ->
                <<data.kids[1], data.kids[1].v.kids[1].v.kids[1], data.kids[2],
                  data.kids[2].v.kids[1]>>

\* A value that is None, "", [] or {}.
IsNothing(v) == v.t = "none" \/ (v.t # "num" /\ v.s = <<>> /\ v.kids = <<>>)

\* The summary holds, for each field that has an item among items whose key
\* is one of its names under norm and whose value is something, the text of
\* the first such value, and holds no other field.
ReportsFirst(items, norm(_), text(_, _)) ==
    /\ ~sum_out[1].raised
    /\ \A f \in DOMAIN field_map :
          LET Matches(e) == norm(e.k) \in field_map[f] /\ ~IsNothing(e.v)
              found == SelectSeq(items, Matches)
          IN  IF found = <<>> THEN f \notin DOMAIN sum_out[1].summary
              ELSE /\ f \in DOMAIN sum_out[1].summary
                   /\ sum_out[1].summary[f] = text(f, found[1].v)

\* C25 as stated: each field is reported with the first value in document
\* order whose key is one of its names but for the case of the letters and
\* whose value is not None, "", [] or {}; a field without one is missing,
\* and nothing is raised.
C25_FirstMatchingValue ==
    sum_out # <<>> =>
        ReportsFirst(DocItems,
                     LAMBDA k : CASE k = "Title" -> "title" [] k = "YEAR" -> "year" [] OTHER -> k,
                     LAMBDA f, v : IF v.t \in {"dict", "list"} THEN JsonDumps(v) ELSE v.s)

\* C25 amended: each field is reported with the text of the first value in
\* document order whose key is, once trimmed and but for the case of its
\* letters, one of its names and whose value is not None, "", [] or {}: a
\* string trimmed, a map or list as JSON, and for year the first 19xx or
\* 20xx in that text when there is one; a field without such a value is
\* missing, and nothing is raised.
C25_FirstMatchingValueAsText ==
    sum_out # <<>> =>
        ReportsFirst(DocItems, KeyNorm,
                     LAMBDA f, v : IF f = "year" THEN YearIn(coerce_text(v)) ELSE coerce_text(v))

\* C25 witness: the wrapper object holds an empty "Title" and the response
\* a " name " after it; the summary is the title "a", from the second.
C25_Witness ==
    /\ sum_in # <<>>
    /\ sum_out # <<>>
    /\ sum_in[1].shape = "wrapped"
    /\ sum_in[1].data.kids[1].v.kids[1] = [k |-> "Title", v |-> JStr(<<>>)]
    /\ sum_in[1].data.kids[2] = [k |-> " name ", v |-> JStr(<<" ", "a", " ">>)]
    /\ sum_out[1].summary = ("title" :> <<"a">>)

====
